---- MODULE Spec2Model ----
(***************************************************************************)
(* Companion Cube: multi-timeframe activity classification and             *)
(* intervention scheduling (companion_main.py, event_processor.py,         *)
(* activitywatch_client.py).                                               *)
(*                                                                         *)
(* Time in the scheduler is counted in whole minutes since construction    *)
(* of the CompanionCube object; event durations are counted in whole       *)
(* seconds, so that "minutes" of the source is seconds / 60 and every      *)
(* threshold of the source is compared after multiplying out the 60.       *)
(***************************************************************************)
EXTENDS Integers, Sequences, FiniteSets, TLC

VARIABLES
    pc,                 \* position of run(): "start", "loop", "sleep", "stopped"
    mode,               \* self.mode
    clock,              \* wall clock, minutes since __init__
    last_intervention,  \* self.last_intervention, minutes since __init__
    daily_stats,        \* self.daily_stats (the interventions counter)
    user_state,         \* check_activity: llm_analysis['current_state'] of the last cycle
    decision,           \* check_activity: the local should_intervene of the last cycle
    outcome,            \* how the last cycle ended
    multi_timeframe_data,  \* timeframe -> [window, web, afk] event lists
    summaries,          \* timeframe -> summary (filter_and_summarize_data)
    comparison,         \* the result of create_behavior_comparison
    stage,              \* position of the classification pipeline
    llm_response,       \* analyze_user_state_with_llm: what the LLM request came back with
    llm_analysis,       \* check_activity: llm_analysis (state and trends used downstream)
    aw_replies,         \* what the ActivityWatch API does with each attempt of a request
    aw_events           \* get_events: what the call returned, and after how many attempts

scheduler_vars == <<pc, mode, clock, last_intervention, daily_stats, user_state,
                    decision, outcome>>

analysis_vars == <<llm_response, llm_analysis>>

client_vars == <<aw_replies, aw_events>>

classifier_vars == <<multi_timeframe_data, summaries, comparison, stage,
                     llm_response, llm_analysis, aw_replies, aw_events>>

vars == <<pc, mode, clock, last_intervention, daily_stats, user_state,
          decision, outcome,
          multi_timeframe_data, summaries, comparison, stage,
          llm_response, llm_analysis, aw_replies, aw_events>>

(***************************************************************************)
(* Bounds of the model.                                                    *)
(***************************************************************************)
MaxClock == 46
MaxLatency == 1
MaxInterventions == 2
MaxActiveMinutes == 6
MaxSwitches == 10
MaxFocusSessions == 2
MaxDistractions == 2
MaxDistractionMinutes == 3
MaxShortDistractions == 3
MaxMediumDistractions == 6
MaxAfkEvents == 3
MaxAfkTimestamp == 3
MaxWindowEvents == 3
MaxWebEvents == 3

(***************************************************************************)
(* Text: application names, urls and keywords are sequences of characters, *)
(* so that lower(), startswith() and the substring test `kw in name` are   *)
(* computed.                                                               *)
(***************************************************************************)
UpperCase ==
    <<"A", "B", "C", "D", "E", "F", "G", "H", "I", "J", "K", "L", "M",
      "N", "O", "P", "Q", "R", "S", "T", "U", "V", "W", "X", "Y", "Z">>

LowerCase ==
    <<"a", "b", "c", "d", "e", "f", "g", "h", "i", "j", "k", "l", "m",
      "n", "o", "p", "q", "r", "s", "t", "u", "v", "w", "x", "y", "z">>

LowerChar(c) ==
    IF \E i \in DOMAIN UpperCase : UpperCase[i] = c
    THEN LowerCase[CHOOSE i \in DOMAIN UpperCase : UpperCase[i] = c]
    ELSE c

\* str.lower()
Lower(s) == [i \in 1..Len(s) |-> LowerChar(s[i])]

\* kw in s
Contains(s, kw) ==
    \E i \in 0..(Len(s) - Len(kw)) : SubSeq(s, i + 1, i + Len(kw)) = kw

\* s.startswith(p)
StartsWith(s, p) == Len(s) >= Len(p) /\ SubSeq(s, 1, Len(p)) = p

\* index of the first occurrence of kw in s, 0 when there is none (str.find + 1)
Find(s, kw) ==
    LET hits == {i \in 1..(Len(s) - Len(kw) + 1) : SubSeq(s, i, i + Len(kw) - 1) = kw}
    IN  IF hits = {} THEN 0 ELSE CHOOSE i \in hits : \A j \in hits : i <= j

RECURSIVE SumSeq(_)
SumSeq(q) == IF q = <<>> THEN 0 ELSE Head(q) + SumSeq(Tail(q))

(***************************************************************************)
(* EventProcessor.__init__: the keyword tables, in dict insertion order.   *)
(***************************************************************************)
distraction_apps ==
    << <<"social", <<
            <<"f", "a", "c", "e", "b", "o", "o", "k">>,
            <<"t", "w", "i", "t", "t", "e", "r">>,
            <<"i", "n", "s", "t", "a", "g", "r", "a", "m">>,
            <<"t", "i", "k", "t", "o", "k">>,
            <<"s", "n", "a", "p", "c", "h", "a", "t">>,
            <<"d", "i", "s", "c", "o", "r", "d">>,
            <<"s", "l", "a", "c", "k">>
       >> >>,
       <<"video", <<
            <<"y", "o", "u", "t", "u", "b", "e">>,
            <<"n", "e", "t", "f", "l", "i", "x">>,
            <<"t", "w", "i", "t", "c", "h">>,
            <<"h", "u", "l", "u">>,
            <<"p", "r", "i", "m", "e", " ", "v", "i", "d", "e", "o">>
       >> >>,
       <<"news", <<
            <<"r", "e", "d", "d", "i", "t">>,
            <<"n", "e", "w", "s">>,
            <<"c", "n", "n">>,
            <<"b", "b", "c">>,
            <<"h", "a", "c", "k", "e", "r", "n", "e", "w", "s">>
       >> >>,
       <<"games", <<
            <<"s", "t", "e", "a", "m">>,
            <<"g", "a", "m", "e">>,
            <<"m", "i", "n", "e", "c", "r", "a", "f", "t">>,
            <<"f", "o", "r", "t", "n", "i", "t", "e">>,
            <<"l", "e", "a", "g", "u", "e", " ", "o", "f", " ", "l", "e", "g", "e", "n", "d", "s">>
       >> >> >>

distraction_domains ==
    << <<"social", <<
            <<"f", "a", "c", "e", "b", "o", "o", "k", ".", "c", "o", "m">>,
            <<"t", "w", "i", "t", "t", "e", "r", ".", "c", "o", "m">>,
            <<"i", "n", "s", "t", "a", "g", "r", "a", "m", ".", "c", "o", "m">>,
            <<"t", "i", "k", "t", "o", "k", ".", "c", "o", "m">>,
            <<"d", "i", "s", "c", "o", "r", "d", ".", "c", "o", "m">>
       >> >>,
       <<"video", <<
            <<"y", "o", "u", "t", "u", "b", "e", ".", "c", "o", "m">>,
            <<"n", "e", "t", "f", "l", "i", "x", ".", "c", "o", "m">>,
            <<"t", "w", "i", "t", "c", "h", ".", "t", "v">>,
            <<"h", "u", "l", "u", ".", "c", "o", "m">>
       >> >>,
       <<"news", <<
            <<"r", "e", "d", "d", "i", "t", ".", "c", "o", "m">>,
            <<"n", "e", "w", "s", ".", "y", "c", "o", "m", "b", "i", "n", "a", "t", "o", "r", ".", "c", "o", "m">>,
            <<"c", "n", "n", ".", "c", "o", "m">>,
            <<"b", "b", "c", ".", "c", "o", "m">>
       >> >>,
       <<"games", <<
            <<"s", "t", "o", "r", "e", ".", "s", "t", "e", "a", "m", "p", "o", "w", "e", "r", "e", "d", ".", "c", "o", "m">>,
            <<"t", "w", "i", "t", "c", "h", ".", "t", "v", "/", "d", "i", "r", "e", "c", "t", "o", "r", "y", "/", "g", "a", "m", "i", "n", "g">>
       >> >> >>

productivity_apps ==
    << <<"coding", <<
            <<"c", "o", "d", "e">>,
            <<"v", "i", "s", "u", "a", "l", " ", "s", "t", "u", "d", "i", "o">>,
            <<"v", "i", "m">>,
            <<"e", "m", "a", "c", "s">>,
            <<"s", "u", "b", "l", "i", "m", "e">>,
            <<"a", "t", "o", "m">>,
            <<"p", "y", "c", "h", "a", "r", "m">>,
            <<"i", "n", "t", "e", "l", "l", "i", "j">>,
            <<"t", "e", "r", "m", "i", "n", "a", "l">>
       >> >>,
       <<"writing", <<
            <<"w", "o", "r", "d">>,
            <<"d", "o", "c", "s">>,
            <<"n", "o", "t", "i", "o", "n">>,
            <<"o", "b", "s", "i", "d", "i", "a", "n">>,
            <<"n", "o", "t", "e", "p", "a", "d">>,
            <<"t", "y", "p", "o", "r", "a">>,
            <<"s", "c", "r", "i", "v", "e", "n", "e", "r">>
       >> >>,
       <<"design", <<
            <<"p", "h", "o", "t", "o", "s", "h", "o", "p">>,
            <<"i", "l", "l", "u", "s", "t", "r", "a", "t", "o", "r">>,
            <<"f", "i", "g", "m", "a">>,
            <<"s", "k", "e", "t", "c", "h">>,
            <<"c", "a", "n", "v", "a">>
       >> >>,
       <<"research", <<
            <<"c", "h", "r", "o", "m", "e">>,
            <<"f", "i", "r", "e", "f", "o", "x">>,
            <<"s", "a", "f", "a", "r", "i">>,
            <<"e", "d", "g", "e">>,
            <<"b", "r", "a", "v", "e">>
       >> >> >>


focus_threshold_minutes == 15
SecondsPerMinute == 60

\* any(kw in name for kw in keywords)
AnyKeyword(keywords, name) ==
    \E j \in DOMAIN keywords : Contains(name, keywords[j])

\* the first category of the table (in insertion order) one of whose keywords
\* occurs in name; 0 when none does
FirstCategory(table, name) ==
    LET hits == {i \in DOMAIN table : AnyKeyword(table[i][2], name)}
    IN  IF hits = {} THEN 0 ELSE CHOOSE i \in hits : \A j \in hits : i <= j

\* EventProcessor._categorize_app
categorize_app(app) ==
    LET app_lower == Lower(app)
        p == FirstCategory(productivity_apps, app_lower)
        d == FirstCategory(distraction_apps, app_lower)
    IN  IF p # 0 THEN "productive_" \o productivity_apps[p][1]
        ELSE IF d # 0 THEN "distraction_" \o distraction_apps[d][1]
        ELSE "neutral"

\* EventProcessor._is_distraction_app
is_distraction_app(app) ==
    \E i \in DOMAIN distraction_apps : AnyKeyword(distraction_apps[i][2], Lower(app))

\* EventProcessor._is_distraction_domain
is_distraction_domain(domain) ==
    \E i \in DOMAIN distraction_domains :
        AnyKeyword(distraction_domains[i][2], Lower(domain))

\* EventProcessor._categorize_domain
categorize_domain(domain) ==
    LET d == FirstCategory(distraction_domains, Lower(domain))
    IN  IF d # 0 THEN "distraction_" \o distraction_domains[d][1] ELSE "neutral"

(***************************************************************************)
(* Event Aggregator and Focus/Distraction Detector (event_processor.py).   *)
(* A window event is [timestamp, duration (seconds), app, title]; a web    *)
(* event is [timestamp, duration (seconds), url, title]; an AFK event is   *)
(* [timestamp, status].  A dict is a sequence of <<key, value>> pairs in   *)
(* insertion order.                                                        *)
(***************************************************************************)
NoneApp == <<"None">>

\* the source's `duration < 0.05` (minutes), in seconds
ShortEventSeconds == 3
\* the source's `duration > 2` (minutes) for apps and `duration > 1` for web
AppDistractionMinutes == 2
WebDistractionMinutes == 1
\* the source's `active_time < 5` (minutes)
LightActivityMinutes == 5

\* events.sort(key=lambda x: x['timestamp']): a stable sort
RECURSIVE SortByTimestamp(_)
SortByTimestamp(events) ==
    IF events = <<>> THEN <<>>
    ELSE LET e == events[Len(events)]
             sorted == SortByTimestamp(SubSeq(events, 1, Len(events) - 1))
             before == {i \in DOMAIN sorted : sorted[i].timestamp <= e.timestamp}
             k == Cardinality(before)
         IN  SubSeq(sorted, 1, k) \o <<e>> \o SubSeq(sorted, k + 1, Len(sorted))

\* _is_currently_afk reading the last event of the list (afk_events[-1])
\* instead of the one with the greatest timestamp
IsCurrentlyAfkLastInList(afk_events) ==
    IF afk_events = <<>> THEN FALSE
    ELSE afk_events[Len(afk_events)].status = "afk"

\* EventProcessor._is_currently_afk: max() returns the first event, in list
\* order, that carries the greatest timestamp
is_currently_afk(afk_events) ==
    IF afk_events = <<>> THEN FALSE
    ELSE LET top == {i \in DOMAIN afk_events :
                        \A j \in DOMAIN afk_events :
                            afk_events[j].timestamp <= afk_events[i].timestamp}
             latest == CHOOSE i \in top : \A j \in top : i <= j
         IN  afk_events[latest].status = "afk"

\* d[key] += value on a defaultdict(float)
AddDuration(d, key, value) ==
    IF \E i \in DOMAIN d : d[i][1] = key
    THEN [i \in DOMAIN d |-> IF d[i][1] = key THEN <<key, d[i][2] + value>> ELSE d[i]]
    ELSE Append(d, <<key, value>>)

\* `if title and title not in titles[key]: titles[key].append(title)` on a
\* defaultdict(list)
AddTitle(d, key, title) ==
    IF title = "" THEN d
    ELSE IF \E i \in DOMAIN d : d[i][1] = key
    THEN [i \in DOMAIN d |->
             IF d[i][1] = key /\ \A j \in DOMAIN d[i][2] : d[i][2][j] # title
             THEN <<key, Append(d[i][2], title)>>
             ELSE d[i]]
    ELSE Append(d, <<key, <<title>>>>)

\* sorted(d.items(), key=lambda x: x[1], reverse=True)[:5]
RECURSIVE SortByDurationDesc(_)
SortByDurationDesc(d) ==
    IF d = <<>> THEN <<>>
    ELSE LET e == d[Len(d)]
             sorted == SortByDurationDesc(SubSeq(d, 1, Len(d) - 1))
             before == {i \in DOMAIN sorted : sorted[i][2] >= e[2]}
             k == Cardinality(before)
         IN  SubSeq(sorted, 1, k) \o <<e>> \o SubSeq(sorted, k + 1, Len(sorted))

TopFive(d) ==
    LET s == SortByDurationDesc(d) IN SubSeq(s, 1, IF Len(s) < 5 THEN Len(s) ELSE 5)

\* the focus session recorded for the run the loop has just left
FocusSession(acc) ==
    [app |-> acc.current_app,
     duration |-> acc.session_duration,
     start_time |-> acc.session_start,
     category |-> categorize_app(acc.current_app)]

\* the focus test with `>` in place of `>=`
IsFocusRunStrict(acc) ==
    /\ acc.current_app # NoneApp
    /\ acc.current_app # <<>>
    /\ acc.session_duration > focus_threshold_minutes * SecondsPerMinute

\* `if current_app and session_duration >= self.focus_threshold_minutes`
IsFocusRun(acc) ==
    /\ acc.current_app # NoneApp
    /\ acc.current_app # <<>>
    /\ acc.session_duration >= focus_threshold_minutes * SecondsPerMinute

\* the loop body without the floor on short events
WindowStepKeepingShort(acc, event) ==
    LET app == Lower(event.app)
        duration == event.duration
        tracked == IF app # <<>>
                   THEN AddDuration(acc.app_durations, app, duration)
                   ELSE acc.app_durations
        titled == IF app # <<>>
                  THEN AddTitle(acc.app_titles, app, event.title)
                  ELSE acc.app_titles
    IN  IF app # acc.current_app
        THEN [app_durations |-> tracked,
              app_titles |-> titled,
              focus_sessions |-> IF IsFocusRun(acc)
                                 THEN Append(acc.focus_sessions, FocusSession(acc))
                                 ELSE acc.focus_sessions,
              app_switches |-> IF acc.current_app # NoneApp
                               THEN acc.app_switches + 1
                               ELSE acc.app_switches,
              current_app |-> app,
              session_start |-> event.timestamp,
              session_duration |-> duration]
        ELSE [acc EXCEPT !.app_durations = tracked,
                         !.app_titles = titled,
                         !.session_duration = @ + duration]

\* one iteration of the loop of _summarize_window_events
WindowStep(acc, event) ==
    LET app == Lower(event.app)
        duration == event.duration
    IN  IF duration < ShortEventSeconds THEN acc
        ELSE LET tracked == IF app # <<>>
                            THEN AddDuration(acc.app_durations, app, duration)
                            ELSE acc.app_durations
                 titled == IF app # <<>>
                           THEN AddTitle(acc.app_titles, app, event.title)
                           ELSE acc.app_titles
             IN  IF app # acc.current_app
                 THEN [app_durations |-> tracked,
                       app_titles |-> titled,
                       focus_sessions |-> IF IsFocusRun(acc)
                                          THEN Append(acc.focus_sessions, FocusSession(acc))
                                          ELSE acc.focus_sessions,
                       app_switches |-> IF acc.current_app # NoneApp
                                        THEN acc.app_switches + 1
                                        ELSE acc.app_switches,
                       current_app |-> app,
                       session_start |-> event.timestamp,
                       session_duration |-> duration]
                 ELSE [acc EXCEPT !.app_durations = tracked,
                                  !.app_titles = titled,
                                  !.session_duration = @ + duration]

RECURSIVE WindowLoop(_, _)
WindowLoop(acc, events) ==
    IF events = <<>> THEN acc
    ELSE WindowLoop(WindowStep(acc, Head(events)), Tail(events))

\* the distractions of _summarize_window_events, in the order of app_durations
AppDistractions(app_durations) ==
    LET keep == {i \in DOMAIN app_durations :
                    /\ is_distraction_app(app_durations[i][1])
                    /\ app_durations[i][2] > AppDistractionMinutes * SecondsPerMinute}
        Episode(i) == [type |-> "app",
                       name |-> app_durations[i][1],
                       duration |-> app_durations[i][2],
                       category |-> categorize_app(app_durations[i][1])]
        RECURSIVE Collect(_)
        Collect(i) ==
            IF i > Len(app_durations) THEN <<>>
            ELSE (IF i \in keep THEN <<Episode(i)>> ELSE <<>>) \o Collect(i + 1)
    IN  Collect(1)

\* the result of _summarize_window_events without the check of the final
\* session after the loop
WindowResultWithoutFinalRun(acc) ==
    [active_time |-> SumSeq([i \in DOMAIN acc.app_durations |-> acc.app_durations[i][2]]),
     app_summary |-> TopFive(acc.app_durations),
     app_titles |-> acc.app_titles,
     focus_sessions |-> acc.focus_sessions,
     distractions |-> AppDistractions(acc.app_durations),
     app_switches |-> acc.app_switches]

\* the dict _summarize_window_events returns, from the state the loop ends in
WindowResult(acc) ==
    [active_time |-> SumSeq([i \in DOMAIN acc.app_durations |-> acc.app_durations[i][2]]),
     app_summary |-> TopFive(acc.app_durations),
     app_titles |-> acc.app_titles,
     focus_sessions |-> IF IsFocusRun(acc)
                        THEN Append(acc.focus_sessions, FocusSession(acc))
                        ELSE acc.focus_sessions,
     distractions |-> AppDistractions(acc.app_durations),
     app_switches |-> acc.app_switches]

\* the start of the loop with current_app the empty string instead of None
WindowStartEmptyName ==
    [app_durations |-> <<>>, app_titles |-> <<>>, focus_sessions |-> <<>>,
     app_switches |-> 0,
     current_app |-> <<>>, session_start |-> 0, session_duration |-> 0]

WindowStart ==
    [app_durations |-> <<>>, app_titles |-> <<>>, focus_sessions |-> <<>>,
     app_switches |-> 0,
     current_app |-> NoneApp, session_start |-> 0, session_duration |-> 0]

\* EventProcessor._summarize_window_events, for a non-empty event list
summarize_window_events(events) ==
    CHOOSE result \in
        { WindowResult(acc) :
            acc \in {WindowLoop(WindowStart, SortByTimestamp(events))} } : TRUE

SchemeChars ==
    {LowerCase[i] : i \in DOMAIN LowerCase} \cup {UpperCase[i] : i \in DOMAIN UpperCase}
        \cup {"0", "1", "2", "3", "4", "5", "6", "7", "8", "9", "+", "-", "."}

\* urlparse(url).netloc: the text between "//" (at the start, or right after a
\* valid "scheme:") and the next "/", "?" or "#"
Netloc(url) ==
    LET c == Find(url, <<":">>)
        has_scheme == c > 1 /\ \A i \in 1..(c - 1) : url[i] \in SchemeChars
        after == IF has_scheme THEN SubSeq(url, c + 1, Len(url)) ELSE url
        rest == IF StartsWith(after, <<"/", "/">>) THEN SubSeq(after, 3, Len(after)) ELSE <<>>
        stops == {i \in DOMAIN rest : rest[i] \in {"/", "?", "#"}}
    IN  IF stops = {} THEN rest
        ELSE SubSeq(rest, 1, (CHOOSE i \in stops : \A j \in stops : i <= j) - 1)

\* EventProcessor._extract_domain
extract_domain(url) ==
    LET domain == Netloc(url)
    IN  IF StartsWith(domain, <<"w", "w", "w", ".">>) THEN SubSeq(domain, 5, Len(domain))
        ELSE domain

\* one iteration of the loop of _summarize_web_events
WebStep(acc, event) ==
    IF event.url = <<>> THEN acc
    ELSE LET domain == extract_domain(event.url)
         IN  [domain_durations |-> AddDuration(acc.domain_durations, domain, event.duration),
              domain_titles |-> AddTitle(acc.domain_titles, domain, event.title),
              distractions |->
                  IF /\ is_distraction_domain(domain)
                     /\ event.duration > WebDistractionMinutes * SecondsPerMinute
                  THEN Append(acc.distractions,
                              [type |-> "web", name |-> domain, duration |-> event.duration,
                               category |-> categorize_domain(domain)])
                  ELSE acc.distractions]

RECURSIVE WebLoop(_, _)
WebLoop(acc, events) ==
    IF events = <<>> THEN acc
    ELSE WebLoop(WebStep(acc, Head(events)), Tail(events))

\* the dict _summarize_web_events returns, from the state the loop ends in
WebResult(acc) ==
    [domain_summary |-> TopFive(acc.domain_durations),
     domain_titles |-> acc.domain_titles,
     distractions |-> acc.distractions,
     total_web_time |->
         SumSeq([i \in DOMAIN acc.domain_durations |-> acc.domain_durations[i][2]])]

\* EventProcessor._summarize_web_events, for a non-empty event list
summarize_web_events(events) ==
    CHOOSE result \in
        { WebResult(acc) :
            acc \in {WebLoop([domain_durations |-> <<>>, domain_titles |-> <<>>,
                              distractions |-> <<>>],
                             events)} } : TRUE

\* the web_summary of a window without web events ({} in the source)
NoWebSummary ==
    [domain_summary |-> <<>>, domain_titles |-> <<>>, distractions |-> <<>>,
     total_web_time |-> 0]

\* _determine_behavior_pattern with the context_switching test placed before
\* the heavily_distracted test
DetermineBehaviorPatternSwitchFirst(summary) ==
    LET active_time == summary.active_time
        app_switches == summary.app_switches
        focus_sessions == Len(summary.focus_sessions)
        distracted == SumSeq([i \in DOMAIN summary.distractions |->
                                 summary.distractions[i].duration])
        switch_rate_low == IF active_time > 0
                           THEN 5 * SecondsPerMinute * app_switches < active_time
                           ELSE TRUE
        distraction_high == IF active_time > 0 THEN 2 * distracted > active_time ELSE FALSE
        switch_rate_high == IF active_time > 0
                            THEN 2 * SecondsPerMinute * app_switches > active_time
                            ELSE FALSE
    IN  IF summary.is_afk THEN "away"
        ELSE IF focus_sessions > 0 /\ switch_rate_low THEN "focused_work"
        ELSE IF switch_rate_high THEN "context_switching"
        ELSE IF distraction_high THEN "heavily_distracted"
        ELSE IF active_time < LightActivityMinutes * SecondsPerMinute THEN "light_activity"
        ELSE "normal_work"

\* EventProcessor._determine_behavior_pattern; active_time and the distraction
\* durations are seconds, so switch_rate = 60 * app_switches / active_time
determine_behavior_pattern(summary) ==
    LET active_time == summary.active_time
        app_switches == summary.app_switches
        focus_sessions == Len(summary.focus_sessions)
        distracted == SumSeq([i \in DOMAIN summary.distractions |->
                                 summary.distractions[i].duration])
        \* switch_rate < 0.2, distraction_ratio > 0.5, switch_rate > 0.5
        switch_rate_low == IF active_time > 0
                           THEN 5 * SecondsPerMinute * app_switches < active_time
                           ELSE TRUE
        distraction_high == IF active_time > 0 THEN 2 * distracted > active_time ELSE FALSE
        switch_rate_high == IF active_time > 0
                            THEN 2 * SecondsPerMinute * app_switches > active_time
                            ELSE FALSE
    IN  IF summary.is_afk THEN "away"
        ELSE IF focus_sessions > 0 /\ switch_rate_low THEN "focused_work"
        ELSE IF distraction_high THEN "heavily_distracted"
        ELSE IF switch_rate_high THEN "context_switching"
        ELSE IF active_time < LightActivityMinutes * SecondsPerMinute THEN "light_activity"
        ELSE "normal_work"

\* the summary of a window without window events (the defaults of
\* filter_and_summarize_data)
NoWindowSummary ==
    [active_time |-> 0, app_summary |-> <<>>, app_titles |-> <<>>,
     focus_sessions |-> <<>>, distractions |-> <<>>, app_switches |-> 0]

\* the body of the loop of filter_and_summarize_data: the summary of one
\* timeframe from its is_afk flag, its window summary w and its web summary
TimeframeSummary(timeframe, afk, w, web) ==
    [timeframe |-> timeframe,
     is_afk |-> afk,
     active_time |-> w.active_time,
     app_summary |-> w.app_summary,
     app_titles |-> w.app_titles,
     web_summary |-> web,
     focus_sessions |-> w.focus_sessions,
     distractions |-> w.distractions \o web.distractions,
     app_switches |-> w.app_switches,
     behavior_pattern |-> ""]

\* summary['behavior_pattern'] = self._determine_behavior_pattern(summary)
WithPattern(summary) ==
    [summary EXCEPT !.behavior_pattern = determine_behavior_pattern(summary)]

\* EventProcessor.filter_and_summarize_data
filter_and_summarize_data(data) ==
    [tf \in DOMAIN data |->
        CHOOSE result \in
            { WithPattern(summary) :
                summary \in
                    { TimeframeSummary(tf, is_currently_afk(data[tf].afk), w, web) :
                        w \in {IF data[tf].window # <<>>
                               THEN summarize_window_events(data[tf].window)
                               ELSE NoWindowSummary},
                        web \in {IF data[tf].web # <<>>
                                 THEN summarize_web_events(data[tf].web)
                                 ELSE NoWebSummary} } } : TRUE]

(***************************************************************************)
(* Cross-Timeframe Classifier (event_processor.py).                        *)
(***************************************************************************)
\* summaries.get(tf, {}).get('focus_sessions', []) and its siblings
FocusSessionsOf(s, tf) == IF tf \in DOMAIN s THEN s[tf].focus_sessions ELSE <<>>
DistractionsOf(s, tf) == IF tf \in DOMAIN s THEN s[tf].distractions ELSE <<>>
PatternOf(s, tf) == IF tf \in DOMAIN s THEN s[tf].behavior_pattern ELSE ""

\* create_behavior_comparison: the focus trend
FocusTrend(s) ==
    LET recent_focus == Len(FocusSessionsOf(s, "5_minutes"))
        older_focus == Len(FocusSessionsOf(s, "30_minutes")) - recent_focus
    IN  IF recent_focus > 0 /\ older_focus = 0 THEN "entering_focus"
        ELSE IF recent_focus = 0 /\ older_focus > 0 THEN "losing_focus"
        ELSE IF recent_focus > 0 THEN "maintaining_focus"
        ELSE "no_focus"

\* the distraction trend with `>=` for the first comparison
DistractionTrendInclusive(s) ==
    LET recent_distractions == Len(DistractionsOf(s, "5_minutes"))
        ten_min_distractions == Len(DistractionsOf(s, "10_minutes"))
    IN  IF 2 * recent_distractions >= ten_min_distractions THEN "increasing"
        ELSE IF 5 * recent_distractions < ten_min_distractions THEN "decreasing"
        ELSE "stable"

\* create_behavior_comparison: the distraction trend (0.5 = 1/2, 0.2 = 1/5)
DistractionTrend(s) ==
    LET recent_distractions == Len(DistractionsOf(s, "5_minutes"))
        ten_min_distractions == Len(DistractionsOf(s, "10_minutes"))
    IN  IF 2 * recent_distractions > ten_min_distractions THEN "increasing"
        ELSE IF 5 * recent_distractions < ten_min_distractions THEN "decreasing"
        ELSE "stable"

\* the current state with the `away` branch left out
CurrentStateWithoutAway(s) ==
    LET recent_pattern == PatternOf(s, "5_minutes")
    IN  IF recent_pattern = "focused_work" THEN "flow"
        ELSE IF recent_pattern = "heavily_distracted" THEN "needs_nudge"
        ELSE IF recent_pattern = "context_switching" THEN "needs_nudge"
        ELSE "working"

\* create_behavior_comparison: the current state
CurrentState(s) ==
    LET recent_pattern == PatternOf(s, "5_minutes")
    IN  IF recent_pattern = "focused_work" THEN "flow"
        ELSE IF recent_pattern = "heavily_distracted" THEN "needs_nudge"
        ELSE IF recent_pattern = "context_switching" THEN "needs_nudge"
        ELSE IF recent_pattern = "away" THEN "afk"
        ELSE "working"

\* EventProcessor.create_behavior_comparison
create_behavior_comparison(s) ==
    [focus_trend |-> FocusTrend(s),
     distraction_trend |-> DistractionTrend(s),
     current_state |-> CurrentState(s)]

(***************************************************************************)
(* Intervention Scheduler (companion_main.py).                             *)
(***************************************************************************)
States == {"flow", "working", "needs_nudge", "afk"}
UnknownState == "unknown"
Modes == {"ghost", "coach", "study_buddy", "weekend"}
UnknownMode == "zen"

check_interval == 1

intervention_cooldown ==
    [s \in States |-> CASE s = "flow" -> 45
                        [] s = "working" -> 15
                        [] s = "needs_nudge" -> 5
                        [] s = "afk" -> 0]

DefaultCooldown == 15

\* the lookup in a table that has no entry for afk, which then gets the default
CooldownWithoutAfkEntry(s) ==
    IF s \in DOMAIN intervention_cooldown \ {"afk"} THEN intervention_cooldown[s]
    ELSE DefaultCooldown

\* self.intervention_cooldown.get(user_state, 15)
Cooldown(s) ==
    IF s \in DOMAIN intervention_cooldown THEN intervention_cooldown[s]
    ELSE DefaultCooldown

\* ModePolicy with "flow" added to the states coach mode intervenes in
ModePolicyCoachFlow(m, s) ==
    IF m = "coach" THEN s \in {"needs_nudge", "working", "afk", "flow"}
    ELSE IF m = "study_buddy" THEN TRUE
    ELSE IF m = "weekend" THEN s = "needs_nudge"
    ELSE FALSE

\* mode-specific logic of should_intervene, reached once the cooldown has elapsed
ModePolicy(m, s) ==
    IF m = "coach" THEN s \in {"needs_nudge", "working", "afk"}
    ELSE IF m = "study_buddy" THEN TRUE
    ELSE IF m = "weekend" THEN s = "needs_nudge"
    ELSE FALSE

\* should_intervene with the mode names "ghost" and "study_buddy" exchanged
ShouldInterveneModesSwapped(m, last, now, s) ==
    IF m = "study_buddy" THEN FALSE
    ELSE LET time_since_last == now - last
             cooldown == Cooldown(s)
         IN  IF time_since_last < cooldown THEN FALSE
             ELSE IF m = "coach" THEN s \in {"needs_nudge", "working", "afk"}
             ELSE IF m = "ghost" THEN TRUE
             ELSE IF m = "weekend" THEN s = "needs_nudge"
             ELSE FALSE

\* should_intervene with `time_since_last <= cooldown` for the cooldown test
ShouldInterveneInclusiveCooldown(m, last, now, s) ==
    IF m = "ghost" THEN FALSE
    ELSE LET time_since_last == now - last
             cooldown == Cooldown(s)
         IN  IF time_since_last <= cooldown THEN FALSE
             ELSE ModePolicy(m, s)

\* should_intervene with the elapsed time counted from construction instead
\* of from last_intervention
ShouldInterveneSinceStart(m, last, now, s) ==
    IF m = "ghost" THEN FALSE
    ELSE LET time_since_last == now
             cooldown == Cooldown(s)
         IN  IF time_since_last < cooldown THEN FALSE
             ELSE ModePolicy(m, s)

\* CompanionCube.should_intervene, with self.mode, self.last_intervention and
\* datetime.now() as explicit parameters
should_intervene(m, last, now, s) ==
    IF m = "ghost" THEN FALSE
    ELSE LET time_since_last == now - last
             cooldown == Cooldown(s)
         IN  IF time_since_last < cooldown THEN FALSE
             ELSE ModePolicy(m, s)

(***************************************************************************)
(* run() and check_activity().                                             *)
(***************************************************************************)
(* The LLM state analysis and its fallback (companion_main.py), on the     *)
(* statistics of prepare_raw_data_for_llm (event_processor.py).            *)
(***************************************************************************)
\* the source's `duration >= 0.08` (minutes) is 4.8 seconds: 5 whole seconds
RawEventSeconds == 5
\* round(total_duration, 2): minutes are kept in hundredths
HundredthsPerMinute == 100

\* str.strip() on blanks
RECURSIVE Strip(_)
Strip(s) ==
    IF s = <<>> THEN s
    ELSE IF Head(s) = " " THEN Strip(Tail(s))
    ELSE IF s[Len(s)] = " " THEN Strip(SubSeq(s, 1, Len(s) - 1))
    ELSE s

\* round(seconds / 60, 2) in hundredths of a minute; no whole number of
\* seconds lies half-way between two hundredths
RoundedMinutes(seconds) == (seconds * HundredthsPerMinute + 30) \div SecondsPerMinute

\* one iteration of the window loop of prepare_raw_data_for_llm
RawStep(acc, event) ==
    LET app == Strip(event.app)
    IN  IF event.duration < RawEventSeconds \/ app = <<>> THEN acc
        ELSE [total_duration |-> acc.total_duration + event.duration,
              context_switches |->
                  IF acc.last_app # NoneApp /\ acc.last_app # Lower(app)
                  THEN acc.context_switches + 1
                  ELSE acc.context_switches,
              last_app |-> Lower(app)]

RECURSIVE RawLoop(_, _)
RawLoop(acc, events) ==
    IF events = <<>> THEN acc
    ELSE RawLoop(RawStep(acc, Head(events)), Tail(events))

\* timeframe_data['statistics'] of prepare_raw_data_for_llm, the two entries
\* the fallback reads
RawStatistics(window_events) ==
    CHOOSE result \in
        { [context_switches |-> acc.context_switches,
           total_active_minutes |-> RoundedMinutes(acc.total_duration)] :
            acc \in {RawLoop([total_duration |-> 0, context_switches |-> 0,
                              last_app |-> NoneApp],
                             SortByTimestamp(window_events))} } : TRUE

\* raw_data.get('timeframes', {}).get('5_minutes', {}).get('statistics', {})
\* with the defaults the fallback reads from it
recent_stats(data) ==
    IF "5_minutes" \in DOMAIN data
    THEN RawStatistics(data["5_minutes"].window)
    ELSE [context_switches |-> 0, total_active_minutes |-> 0]

\* CompanionCube._fallback_state_analysis
fallback_state_analysis(stats) ==
    LET active_time == stats.total_active_minutes
        switch_count == stats.context_switches
    IN  IF 2 * active_time < HundredthsPerMinute
        THEN [current_state |-> "afk", focus_trend |-> "none",
              distraction_trend |-> "none"]
        ELSE IF switch_count >= 5
        THEN [current_state |-> "needs_nudge", focus_trend |-> "losing_focus",
              distraction_trend |-> "increasing"]
        ELSE IF active_time >= 3 * HundredthsPerMinute /\ switch_count <= 2
        THEN [current_state |-> "flow", focus_trend |-> "maintaining_focus",
              distraction_trend |-> "low"]
        ELSE [current_state |-> "working", focus_trend |-> "variable",
              distraction_trend |-> "moderate"]

valid_states == {"flow", "working", "needs_nudge", "afk"}
valid_focus_trends ==
    {"maintaining_focus", "entering_focus", "losing_focus", "variable", "none"}
valid_distraction_trends == {"low", "moderate", "increasing", "decreasing", "high"}

\* CompanionCube._parse_llm_state_analysis returns the parsed reply (and not
\* None): the request succeeded, the reply holds a JSON object with the three
\* required fields, and each field has one of the valid values
parse_llm_state_analysis(response) ==
    /\ response.kind = "json"
    /\ response.complete
    /\ response.current_state \in valid_states
    /\ response.focus_trend \in valid_focus_trends
    /\ response.distraction_trend \in valid_distraction_trends

\* CompanionCube.analyze_user_state_with_llm: the parsed reply, else the
\* fallback on the raw statistics
analyze_user_state_with_llm(data, response) ==
    IF parse_llm_state_analysis(response)
    THEN [current_state |-> response.current_state,
          focus_trend |-> response.focus_trend,
          distraction_trend |-> response.distraction_trend]
    ELSE CHOOSE result \in
             { fallback_state_analysis(stats) : stats \in {recent_stats(data)} } : TRUE

(***************************************************************************)
\* what analyze_user_state_with_llm can return as current_state: an LLM reply
\* is accepted only with a state of valid_states, and the fallback analysis
\* returns one of the same four
AnalysedStates == {"flow", "working", "needs_nudge", "afk"}

\* where an exception can cut a cycle short: nowhere, before should_intervene
\* is called (fetching, analysing, summarising), or after it (displaying)
Faults == {"none", "before_decision", "after_decision"}

NoComparison == [focus_trend |-> "", distraction_trend |-> "", current_state |-> ""]

\* before analyze_user_state_with_llm has run
NoAnalysis == [current_state |-> "", focus_trend |-> "", distraction_trend |-> ""]

AnalysisIdle ==
    /\ llm_response = [kind |-> "none"]
    /\ llm_analysis = NoAnalysis

ClassifierIdle ==
    /\ multi_timeframe_data = [tf \in {} |-> <<>>]
    /\ summaries = [tf \in {} |-> <<>>]
    /\ comparison = NoComparison
    /\ stage = "idle"
    /\ AnalysisIdle

SchedulerIdle ==
    /\ pc = "stopped"
    /\ mode = "coach"
    /\ clock = 0
    /\ last_intervention = 0
    /\ daily_stats = [interventions |-> 0]
    /\ user_state = "none"
    /\ decision = FALSE
    /\ outcome = "none"

(***************************************************************************)
(* ActivityWatchClient: one request with its retries, and get_events.      *)
(***************************************************************************)
\* the default of the `retries` parameter of _make_request
retries == 3

\* what one attempt of requests.request can end in: a reply with status 200,
\* a ConnectionError, a Timeout, a reply with status 500, a reply with another
\* error status (raise_for_status raises HTTPError), any other
\* RequestException
Failures == {"connection_error", "timeout", "status_500", "status_error", "request_error"}

\* the event lists a reply with status 200 carries in the model
Bodies == { <<>>, <<[timestamp |-> 1, duration |-> 60]>> }

Replies ==
    [kind : {"ok"}, body : Bodies] \cup [kind : Failures, body : {<<>>}]

\* ActivityWatchClient._make_request from attempt number `attempt` on: whether
\* it returns None, the decoded body it returns otherwise, and the attempts
\* made
RECURSIVE make_request(_, _)
make_request(replies, attempt) ==
    IF attempt >= retries THEN [none |-> TRUE, body |-> <<>>, attempts |-> attempt]
    ELSE LET reply == replies[attempt + 1]
             last == ~(attempt < retries - 1)
             gives_up == [none |-> TRUE, body |-> <<>>, attempts |-> attempt + 1]
         IN  CASE reply.kind = "ok" ->
                      [none |-> FALSE, body |-> reply.body, attempts |-> attempt + 1]
               [] reply.kind = "status_500" ->
                      IF last THEN gives_up ELSE make_request(replies, attempt + 1)
               [] reply.kind = "timeout" ->
                      IF last THEN gives_up ELSE make_request(replies, attempt + 1)
               [] OTHER -> gives_up

\* get_events with `return events` in place of `return events or []`
GetEventsWithoutDefault(replies) ==
    LET request == make_request(replies, 0)
    IN  [done |-> TRUE,
         none |-> request.none,
         events |-> request.body,
         attempts |-> request.attempts]

\* ActivityWatchClient.get_events: `return events or []`, so the result is
\* never None
get_events(replies) ==
    LET request == make_request(replies, 0)
    IN  [done |-> TRUE,
         none |-> FALSE,
         events |-> IF request.none THEN <<>> ELSE request.body,
         attempts |-> request.attempts]

NotFetched == [done |-> FALSE, none |-> TRUE, events |-> <<>>, attempts |-> 0]

ClientIdle ==
    /\ aw_replies = <<>>
    /\ aw_events = NotFetched

\* the API answers every attempt, or refuses every connection
Reachable == [i \in 1..retries |-> [kind |-> "ok", body |-> <<>>]]
Unreachable == [i \in 1..retries |-> [kind |-> "connection_error", body |-> <<>>]]

\* CompanionCube.__init__
Init ==
    /\ pc = "start"
    /\ mode \in Modes \cup {UnknownMode}
    /\ clock = 0
    /\ last_intervention = 0
    /\ daily_stats = [interventions |-> 0]
    /\ user_state = "none"
    /\ decision = FALSE
    /\ outcome = "none"
    /\ ClassifierIdle
    /\ aw_replies \in {Reachable, Unreachable}
    /\ aw_events = NotFetched

\* ActivityWatchClient.get_buckets: `buckets or {}`; None stands for no reply
get_buckets(reachable) == IF reachable THEN "buckets" ELSE "{}"

\* ActivityWatchClient.test_connection: connected unless get_buckets() is None
test_connection(reachable) == get_buckets(reachable) # "None"

\* run(): the connection test; the monitoring loop is entered when connected
RunStart ==
    /\ pc = "start"
    /\ \E reachable \in {~make_request(aw_replies, 0).none} :
         pc' = IF test_connection(reachable) THEN "loop" ELSE "stopped"
    /\ UNCHANGED <<mode, clock, last_intervention, daily_stats, user_state,
                   decision, outcome>>
    /\ UNCHANGED classifier_vars

\* run(): generate_daily_summary() at 4am resets the daily statistics when
\* there are 30-minute summaries to report
GenerateDailySummary ==
    /\ pc = "loop"
    /\ \E has_summaries \in BOOLEAN :
         daily_stats' = IF has_summaries THEN [interventions |-> 0] ELSE daily_stats
    /\ UNCHANGED <<pc, mode, clock, last_intervention, user_state,
                   decision, outcome>>
    /\ UNCHANGED classifier_vars

\* Cycle with the intervention tracking updated before the
\* `if not should_intervene: return` test instead of after the display
CycleTrackingBeforeTest(s, latency, fault) ==
    LET d == should_intervene(mode, last_intervention, clock, s)
    IN  IF fault = "before_decision"
        THEN /\ latency = 0
             /\ outcome' = "error"
             /\ user_state' = "none"
             /\ decision' = FALSE
             /\ UNCHANGED <<clock, last_intervention, daily_stats>>
        ELSE /\ user_state' = s
             /\ decision' = d
             /\ fault = "none"
             /\ daily_stats.interventions < MaxInterventions
             /\ last_intervention' = clock
             /\ daily_stats' = [daily_stats EXCEPT !.interventions = @ + 1]
             /\ clock' = clock + latency
             /\ IF d THEN outcome' = "intervened"
                ELSE latency = 0 /\ outcome' = "skipped"

\* Cycle with last_intervention written before the response is produced and
\* displayed, so that a failure there comes after the write
CycleTrackingBeforeDisplay(s, latency, fault) ==
    LET d == should_intervene(mode, last_intervention, clock, s)
    IN  IF fault = "before_decision"
        THEN /\ latency = 0
             /\ outcome' = "error"
             /\ user_state' = "none"
             /\ decision' = FALSE
             /\ UNCHANGED <<clock, last_intervention, daily_stats>>
        ELSE /\ user_state' = s
             /\ decision' = d
             /\ IF ~d
                THEN /\ latency = 0
                     /\ fault = "none"
                     /\ outcome' = "skipped"
                     /\ UNCHANGED <<clock, last_intervention, daily_stats>>
                ELSE /\ clock' = clock + latency
                     /\ last_intervention' = clock
                     /\ IF fault = "after_decision"
                        THEN /\ outcome' = "error"
                             /\ UNCHANGED daily_stats
                        ELSE /\ daily_stats.interventions < MaxInterventions
                             /\ outcome' = "intervened"
                             /\ daily_stats' =
                                    [daily_stats EXCEPT !.interventions = @ + 1]

\* the cycle of check_activity() for the analysed state s; should_intervene
\* reads the clock at the start, and latency minutes pass until the response
\* has been displayed
Cycle(s, latency, fault) ==
    LET d == should_intervene(mode, last_intervention, clock, s)
    IN  IF fault = "before_decision"
        THEN /\ latency = 0
             /\ outcome' = "error"
             /\ user_state' = "none"
             /\ decision' = FALSE
             /\ UNCHANGED <<clock, last_intervention, daily_stats>>
        ELSE /\ user_state' = s
             /\ decision' = d
             /\ IF ~d
                THEN /\ latency = 0
                     /\ fault = "none"
                     /\ outcome' = "skipped"
                     /\ UNCHANGED <<clock, last_intervention, daily_stats>>
                ELSE /\ clock' = clock + latency
                     /\ IF fault = "after_decision"
                        THEN /\ outcome' = "error"
                             /\ UNCHANGED <<last_intervention, daily_stats>>
                        ELSE /\ daily_stats.interventions < MaxInterventions
                             /\ outcome' = "intervened"
                             /\ last_intervention' = clock + latency
                             /\ daily_stats' =
                                    [daily_stats EXCEPT !.interventions = @ + 1]

\* one call of check_activity()
CheckActivity ==
    /\ pc = "loop"
    /\ pc' = "sleep"
    /\ \E s \in AnalysedStates, latency \in 0..MaxLatency, fault \in Faults :
         /\ clock + latency <= MaxClock
         /\ Cycle(s, latency, fault)
    /\ UNCHANGED mode
    /\ UNCHANGED classifier_vars

\* time.sleep(self.check_interval)
Sleep ==
    /\ pc = "sleep"
    /\ clock + check_interval <= MaxClock
    /\ pc' = "loop"
    /\ clock' = clock + check_interval
    /\ UNCHANGED <<mode, last_intervention, daily_stats, user_state,
                   decision, outcome>>
    /\ UNCHANGED classifier_vars

Next == RunStart \/ GenerateDailySummary \/ CheckActivity \/ Sleep

Spec == Init /\ [][Next]_vars

(***************************************************************************)
(* should_intervene as a decision function: every mode, state and elapsed  *)
(* time, known or not.                                                     *)
(***************************************************************************)
InitScheduler ==
    /\ pc = "call"
    /\ mode \in Modes \cup {UnknownMode}
    /\ user_state \in States \cup {UnknownState}
    /\ last_intervention \in 0..MaxLatency
    /\ clock \in last_intervention..MaxClock
    /\ daily_stats = [interventions |-> 0]
    /\ decision = FALSE
    /\ outcome = "none"
    /\ ClassifierIdle
    /\ ClientIdle

\* a call of should_intervene(user_state)
ShouldIntervene ==
    /\ pc = "call"
    /\ pc' = "returned"
    /\ decision' = should_intervene(mode, last_intervention, clock, user_state)
    /\ UNCHANGED <<mode, clock, last_intervention, daily_stats, user_state, outcome>>
    /\ UNCHANGED classifier_vars

SpecScheduler == InitScheduler /\ [][ShouldIntervene]_vars

(***************************************************************************)
(* The classification pipeline, step by step.                              *)
(***************************************************************************)
\* summary = ...; summary['behavior_pattern'] = self._determine_behavior_pattern(summary)
DetermineBehaviorPattern ==
    /\ stage = "summary"
    /\ stage' = "summarized"
    /\ summaries' = [tf \in DOMAIN summaries |->
                        [summaries[tf] EXCEPT
                            !.behavior_pattern = determine_behavior_pattern(summaries[tf])]]
    /\ UNCHANGED <<multi_timeframe_data, comparison>>
    /\ UNCHANGED analysis_vars
    /\ UNCHANGED client_vars
    /\ UNCHANGED scheduler_vars

\* summaries = self.event_processor.filter_and_summarize_data(multi_timeframe_data)
FilterAndSummarize ==
    /\ stage \in {"fetched", "analysed"}
    /\ stage' = "summarized"
    /\ summaries' = filter_and_summarize_data(multi_timeframe_data)
    /\ UNCHANGED <<multi_timeframe_data, comparison>>
    /\ UNCHANGED analysis_vars
    /\ UNCHANGED client_vars
    /\ UNCHANGED scheduler_vars

\* comparison = self.event_processor.create_behavior_comparison(summaries)
CreateBehaviorComparison ==
    /\ stage = "summarized"
    /\ stage' = "compared"
    /\ comparison' = create_behavior_comparison(summaries)
    /\ UNCHANGED <<multi_timeframe_data, summaries>>
    /\ UNCHANGED analysis_vars
    /\ UNCHANGED client_vars
    /\ UNCHANGED scheduler_vars

SeqsUpTo(S, n) == UNION {[1..k -> S] : k \in 0..n}

\* a focus session and a distraction episode as they appear in a summary
SampleSession ==
    [app |-> <<"c", "o", "d", "e">>,
     duration |-> focus_threshold_minutes * SecondsPerMinute,
     start_time |-> 1, category |-> "productive_coding"]

SampleDistraction(minutes) ==
    [type |-> "app", name |-> <<"d", "i", "s", "c", "o", "r", "d">>,
     duration |-> minutes * SecondsPerMinute, category |-> "distraction_social"]

Sessions(n) == [i \in 1..n |-> SampleSession]

(***************************************************************************)
(* _determine_behavior_pattern on every summary of the bounded space.      *)
(***************************************************************************)
InitPattern ==
    /\ SchedulerIdle
    /\ AnalysisIdle
    /\ ClientIdle
    /\ stage = "summary"
    /\ multi_timeframe_data = [tf \in {} |-> <<>>]
    /\ comparison = NoComparison
    /\ \E afk \in BOOLEAN, minutes \in 0..MaxActiveMinutes, switches \in 0..MaxSwitches,
          focus \in 0..MaxFocusSessions,
          spent \in SeqsUpTo(1..MaxDistractionMinutes, MaxDistractions) :
         summaries = [tf \in {"5_minutes"} |->
                         [is_afk |-> afk,
                          active_time |-> minutes * SecondsPerMinute,
                          app_switches |-> switches,
                          focus_sessions |-> Sessions(focus),
                          distractions |-> [i \in DOMAIN spent |-> SampleDistraction(spent[i])],
                          behavior_pattern |-> ""]]

SpecPattern == InitPattern /\ [][DetermineBehaviorPattern \/ CreateBehaviorComparison]_vars

(***************************************************************************)
(* create_behavior_comparison on summaries of every shape: a timeframe     *)
(* may be missing, and the pattern may be any string.                      *)
(***************************************************************************)
Patterns ==
    {"away", "focused_work", "heavily_distracted", "context_switching",
     "light_activity", "normal_work"}

InputSummary(focus, distractions, pattern) ==
    [is_afk |-> pattern = "away",
     active_time |-> 0,
     app_switches |-> 0,
     focus_sessions |-> Sessions(focus),
     distractions |-> [i \in 1..distractions |-> SampleDistraction(1)],
     behavior_pattern |-> pattern]

\* -1 stands for a timeframe that is missing from the summaries
InputSummaries(f5, d5, p5, d10, f30) ==
    LET present == (IF f5 >= 0 THEN {"5_minutes"} ELSE {})
                       \cup (IF d10 >= 0 THEN {"10_minutes"} ELSE {})
                       \cup (IF f30 >= 0 THEN {"30_minutes"} ELSE {})
    IN  [tf \in present |->
            IF tf = "5_minutes" THEN InputSummary(f5, d5, p5)
            ELSE IF tf = "10_minutes" THEN InputSummary(0, d10, "normal_work")
            ELSE InputSummary(f30, 0, "normal_work")]

InitCompare ==
    /\ SchedulerIdle
    /\ AnalysisIdle
    /\ ClientIdle
    /\ stage = "summarized"
    /\ multi_timeframe_data = [tf \in {} |-> <<>>]
    /\ comparison = NoComparison
    /\ \E f5 \in -1..MaxFocusSessions, d5 \in 0..MaxShortDistractions,
          p5 \in Patterns \cup {"", "idle"},
          d10 \in -1..MaxMediumDistractions, f30 \in -1..(MaxFocusSessions + 1) :
         /\ f5 = -1 => (d5 = 0 /\ p5 = "")
         /\ summaries = InputSummaries(f5, d5, p5, d10, f30)

SpecCompare == InitCompare /\ [][CreateBehaviorComparison]_vars

(***************************************************************************)
(* The pipeline on AFK events in every arrival order.                      *)
(***************************************************************************)
Timeframes == {"5_minutes", "10_minutes", "30_minutes", "1_hour", "today"}

AppCode == <<"C", "o", "d", "e">>
AppDiscord == <<"D", "i", "s", "c", "o", "r", "d">>
AppExplorer == <<"e", "x", "p", "l", "o", "r", "e", "r">>
UrlYoutube ==
    <<"h", "t", "t", "p", "s", ":", "/", "/", "w", "w", "w", ".",
      "y", "o", "u", "t", "u", "b", "e", ".", "c", "o", "m", "/", "w", "a", "t", "c", "h">>

WindowSamples ==
    { <<>>,
      <<[timestamp |-> 1, duration |-> 1200, app |-> AppCode, title |-> "main.py"]>>,
      <<[timestamp |-> 1, duration |-> 200, app |-> AppDiscord, title |-> "general"]>>,
      <<[timestamp |-> 1, duration |-> 20, app |-> AppCode, title |-> "main.py"],
        [timestamp |-> 2, duration |-> 20, app |-> AppExplorer, title |-> ""],
        [timestamp |-> 3, duration |-> 20, app |-> AppCode, title |-> "main.py"]>>,
      <<[timestamp |-> 1, duration |-> 400, app |-> AppExplorer, title |-> "Downloads"]>> }

WebSamples ==
    { <<>>, <<[timestamp |-> 1, duration |-> 90, url |-> UrlYoutube, title |-> "video"]>> }

AfkEvents == [timestamp : 1..MaxAfkTimestamp, status : {"afk", "not-afk"}]

EmptyBatch == [window |-> <<>>, web |-> <<>>, afk |-> <<>>]

\* get_multi_timeframe_data: the longer windows hold what the short one holds,
\* or nothing when their requests failed
InitAfk ==
    /\ SchedulerIdle
    /\ AnalysisIdle
    /\ ClientIdle
    /\ stage = "fetched"
    /\ summaries = [tf \in {} |-> <<>>]
    /\ comparison = NoComparison
    /\ \E w \in WindowSamples, web \in WebSamples,
          afk \in SeqsUpTo(AfkEvents, MaxAfkEvents), longer \in BOOLEAN :
         multi_timeframe_data =
             [tf \in Timeframes |->
                 IF tf = "5_minutes" \/ longer
                 THEN [window |-> w, web |-> web, afk |-> afk]
                 ELSE EmptyBatch]

SpecAfk == InitAfk /\ [][FilterAndSummarize \/ CreateBehaviorComparison]_vars

(***************************************************************************)
(* The analysis of one cycle of check_activity: the LLM state analysis or  *)
(* its fallback, then the legacy summaries.                                *)
(***************************************************************************)
\* what the request to the LLM can come back with: nothing usable (no
\* connection, a timeout, a status other than 200), text without a JSON
\* object, or a JSON object that holds the three required fields or not
LlmResponses ==
    [kind : {"none", "text"}, complete : {FALSE}, current_state : {""},
     focus_trend : {""}, distraction_trend : {""}]
    \cup
    [kind : {"json"}, complete : BOOLEAN,
     current_state : valid_states \cup {UnknownState},
     focus_trend : valid_focus_trends \cup {"no_focus", "focused"},
     distraction_trend : valid_distraction_trends \cup {"stable", "none"}]

\* six short visits that alternate between two apps
SwitchingSample ==
    [i \in 1..6 |-> [timestamp |-> i, duration |-> 30,
                     app |-> IF i % 2 = 1 THEN AppCode ELSE AppExplorer,
                     title |-> ""]]

AnalysisWindowSamples == WindowSamples \cup {SwitchingSample}

AnalysisAfkSamples ==
    { <<>>, <<[timestamp |-> 1, status |-> "afk"]>>,
      <<[timestamp |-> 1, status |-> "not-afk"]>> }

\* check_activity after get_multi_timeframe_data
InitAnalysis ==
    /\ SchedulerIdle
    /\ AnalysisIdle
    /\ ClientIdle
    /\ stage = "cycle"
    /\ summaries = [tf \in {} |-> <<>>]
    /\ comparison = NoComparison
    /\ \E w \in AnalysisWindowSamples, web \in WebSamples,
          afk \in AnalysisAfkSamples, longer \in BOOLEAN :
         multi_timeframe_data =
             [tf \in Timeframes |->
                 IF tf = "5_minutes" \/ longer
                 THEN [window |-> w, web |-> web, afk |-> afk]
                 ELSE EmptyBatch]

\* llm_analysis = self.analyze_user_state_with_llm(multi_timeframe_data);
\* user_state = llm_analysis['current_state']
AnalyzeUserStateWithLlm ==
    /\ stage = "cycle"
    /\ stage' = "analysed"
    /\ \E response \in LlmResponses :
         /\ llm_response' = response
         /\ llm_analysis' = analyze_user_state_with_llm(multi_timeframe_data, response)
    /\ user_state' = llm_analysis'.current_state
    /\ UNCHANGED <<multi_timeframe_data, summaries, comparison>>
    /\ UNCHANGED client_vars
    /\ UNCHANGED <<pc, mode, clock, last_intervention, daily_stats, decision, outcome>>

SpecAnalysis == InitAnalysis /\ [][AnalyzeUserStateWithLlm \/ FilterAndSummarize]_vars

(***************************************************************************)
(* filter_and_summarize_data on the window and web events of one           *)
(* timeframe: runs that reach the focus threshold or not, events below the *)
(* short-event floor, names in both letter cases, names that match both    *)
(* keyword tables, time on one entity split over several events.           *)
(***************************************************************************)
AppCodeLower == <<"c", "o", "d", "e">>
\* the window class of a site installed as a browser app
AppChromeYoutube ==
    <<"c", "h", "r", "o", "m", "e", "-", "y", "o", "u", "t", "u", "b", "e">>
UrlYoutubeUpper ==
    <<"h", "t", "t", "p", "s", ":", "/", "/",
      "Y", "o", "u", "T", "u", "b", "e", ".", "c", "o", "m", "/">>
UrlTwitter ==
    <<"h", "t", "t", "p", "s", ":", "/", "/",
      "t", "w", "i", "t", "t", "e", "r", ".", "c", "o", "m", "/", "h", "o", "m", "e">>
UrlDocs ==
    <<"h", "t", "t", "p", "s", ":", "/", "/",
      "d", "o", "c", "s", ".", "p", "y", "t", "h", "o", "n", ".", "o", "r", "g", "/">>

\* what one window event can hold: an app and a duration in seconds
WindowVisits ==
    [app : {AppCode}, duration : {1, 600, 900}]
        \cup [app : {AppCodeLower}, duration : {600}]
        \cup [app : {AppDiscord}, duration : {1, 70, 600}]
        \cup [app : {AppChromeYoutube}, duration : {600}]
        \cup [app : {<<>>}, duration : {900}]

\* what one web event can hold: a url and a duration in seconds
WebVisits ==
    [url : {UrlYoutube, UrlYoutubeUpper, UrlTwitter}, duration : {0, 40, 180}]
        \cup [url : {UrlDocs}, duration : {180}]

\* the events of the visits, the i-th visit at timestamp i, in the order of
\* the timestamps or in the opposite order
Arrival(visits, reversed) ==
    [i \in DOMAIN visits |-> IF reversed THEN Len(visits) + 1 - i ELSE i]

WindowEventsOf(visits, reversed) ==
    [i \in DOMAIN visits |->
        [timestamp |-> Arrival(visits, reversed)[i],
         duration |-> visits[Arrival(visits, reversed)[i]].duration,
         app |-> visits[Arrival(visits, reversed)[i]].app,
         title |-> IF visits[Arrival(visits, reversed)[i]].duration = 600
                   THEN "main" ELSE "side"]]

WebEventsOf(visits, reversed) ==
    [i \in DOMAIN visits |->
        [timestamp |-> Arrival(visits, reversed)[i],
         duration |-> visits[Arrival(visits, reversed)[i]].duration,
         url |-> visits[Arrival(visits, reversed)[i]].url,
         title |-> IF visits[Arrival(visits, reversed)[i]].duration = 180
                   THEN "feed" ELSE ""]]

InitAggregate ==
    /\ SchedulerIdle
    /\ AnalysisIdle
    /\ ClientIdle
    /\ stage = "fetched"
    /\ summaries = [tf \in {} |-> <<>>]
    /\ comparison = NoComparison
    /\ \/ \E visits \in SeqsUpTo(WindowVisits, MaxWindowEvents),
             reversed \in BOOLEAN, afk \in {<<>>, <<[timestamp |-> 1, status |-> "afk"]>>} :
            /\ reversed => (Len(visits) > 1 /\ afk = <<>>)
            /\ multi_timeframe_data =
                   [tf \in {"5_minutes"} |->
                       [window |-> WindowEventsOf(visits, reversed), web |-> <<>>,
                        afk |-> afk]]
       \/ \E visits \in SeqsUpTo(WebVisits, MaxWebEvents), reversed \in BOOLEAN :
            /\ reversed => Len(visits) > 1
            /\ multi_timeframe_data =
                   [tf \in {"5_minutes"} |->
                       [window |-> <<>>, web |-> WebEventsOf(visits, reversed),
                        afk |-> <<>>]]
       \/ \E app \in WindowVisits, site \in WebVisits :
            multi_timeframe_data =
                [tf \in {"5_minutes"} |->
                    [window |-> WindowEventsOf(<<app>>, FALSE),
                     web |-> WebEventsOf(<<site>>, FALSE), afk |-> <<>>]]

SpecAggregate == InitAggregate /\ [][FilterAndSummarize \/ CreateBehaviorComparison]_vars

(***************************************************************************)
(* get_events against an API that may fail on any attempt.                 *)
(***************************************************************************)
InitClient ==
    /\ SchedulerIdle
    /\ ClassifierIdle
    /\ aw_replies \in [1..retries -> Replies]
    /\ aw_events = NotFetched

\* events = self.get_events(bucket, start_time, end_time)
GetEvents ==
    /\ ~aw_events.done
    /\ aw_events' = get_events(aw_replies)
    /\ UNCHANGED <<aw_replies, multi_timeframe_data, summaries, comparison, stage>>
    /\ UNCHANGED analysis_vars
    /\ UNCHANGED scheduler_vars

SpecClient == InitClient /\ [][GetEvents]_vars

(***************************************************************************)
(* The monitoring loop without an end: cycles that complete without error, *)
(* one every check_interval.  should_intervene reads the clock only in     *)
(* `now - last_intervention`, so time is counted here from the last        *)
(* intervention (from construction before the first one): last_intervention*)
(* stays 0 and clock is the elapsed time, which stops growing once it has  *)
(* passed every cooldown; the interventions counter stops at its bound.    *)
(***************************************************************************)
LargestCooldown ==
    CHOOSE c \in {Cooldown(s) : s \in States \cup {UnknownState}} :
        \A s \in States \cup {UnknownState} : Cooldown(s) <= c

InitLive ==
    /\ pc = "loop"
    /\ mode \in Modes \cup {UnknownMode}
    /\ clock = 0
    /\ last_intervention = 0
    /\ daily_stats = [interventions |-> 0]
    /\ user_state = "none"
    /\ decision = FALSE
    /\ outcome = "none"
    /\ ClassifierIdle
    /\ ClientIdle

\* one call of check_activity() that raises nothing
CheckActivityCompleted ==
    /\ pc = "loop"
    /\ pc' = "sleep"
    /\ \E s \in AnalysedStates :
         /\ user_state' = s
         /\ decision' = should_intervene(mode, last_intervention, clock, s)
         /\ IF decision'
            THEN /\ outcome' = "intervened"
                 /\ clock' = 0
                 /\ daily_stats' =
                        [daily_stats EXCEPT
                            !.interventions = IF @ < MaxInterventions THEN @ + 1 ELSE @]
            ELSE /\ outcome' = "skipped"
                 /\ UNCHANGED <<clock, daily_stats>>
    /\ UNCHANGED <<mode, last_intervention>>
    /\ UNCHANGED classifier_vars

\* time.sleep(self.check_interval)
SleepInterval ==
    /\ pc = "sleep"
    /\ pc' = "loop"
    /\ clock' = IF clock <= LargestCooldown THEN clock + check_interval ELSE clock
    /\ UNCHANGED <<mode, last_intervention, daily_stats, user_state, decision, outcome>>
    /\ UNCHANGED classifier_vars

\* `while True`: the loop always takes its next step
SpecLive ==
    /\ InitLive
    /\ [][CheckActivityCompleted \/ SleepInterval]_vars
    /\ WF_vars(CheckActivityCompleted)
    /\ WF_vars(SleepInterval)

(***************************************************************************)
(* The scheduler's contract.                                               *)
(***************************************************************************)
AllStates == States \cup {UnknownState}
AllModes == Modes \cup {UnknownMode}

\* the cooldown table as the specification states it
StatedCooldown(s) ==
    CASE s = "flow" -> 45
      [] s = "working" -> 15
      [] s = "needs_nudge" -> 5
      [] s = "afk" -> 0
      [] OTHER -> 15

\* the mode policy as the specification states it
StatedPolicy(m, s) ==
    CASE m = "coach" -> s \in {"needs_nudge", "working", "afk"}
      [] m = "study_buddy" -> TRUE
      [] m = "weekend" -> s = "needs_nudge"
      [] OTHER -> FALSE

\* a step of the run loop that is one call of check_activity()
CycleStep == pc = "loop" /\ pc' = "sleep"

\* C1: in ghost mode should_intervene is false for every state and every
\* elapsed time, and over any sequence of cycles no intervention is delivered:
\* last_intervention keeps its initial value and the counter stays 0.
C1_GhostNeverIntervenes ==
    mode = "ghost" =>
        /\ \A s \in AllStates : \A now \in last_intervention..MaxClock :
               ~should_intervene(mode, last_intervention, now, s)
        /\ decision = FALSE
        /\ outcome # "intervened"
        /\ last_intervention = 0
        /\ daily_stats.interventions = 0

\* a ghost-mode cycle that saw the afk state (cooldown 0) long after every
\* cooldown had elapsed, and skipped
C1_Witness ==
    /\ mode = "ghost"
    /\ outcome = "skipped"
    /\ user_state = "afk"
    /\ clock - last_intervention >= 45

\* C2: in every non-ghost mode should_intervene is false while the minutes
\* elapsed since last_intervention are below the cooldown of the state
\* (flow 45, working 15, needs_nudge 5, afk 0, any other state 15); at
\* elapsed = cooldown the cooldown no longer blocks and the mode policy decides.
C2_CooldownBlocks ==
    pc = "returned" =>
        LET elapsed == clock - last_intervention
        IN  /\ (mode # "ghost" /\ elapsed < StatedCooldown(user_state)) => ~decision
            /\ (mode # "ghost" /\ elapsed = StatedCooldown(user_state))
                   => (decision <=> ModePolicy(mode, user_state))
            /\ (mode = "study_buddy" /\ elapsed = StatedCooldown(user_state)) => decision

\* a state the table does not list, exactly 15 minutes after the last
\* intervention, in a mode that always intervenes: the call returned true
C2_Witness ==
    /\ pc = "returned"
    /\ mode = "study_buddy"
    /\ user_state = UnknownState
    /\ clock - last_intervention = 15
    /\ decision

\* C3: once the cooldown has elapsed should_intervene equals the mode policy:
\* coach intervenes iff the state is needs_nudge, working or afk (never in
\* flow, whatever the elapsed time), study_buddy always, weekend iff
\* needs_nudge, any other mode never; the result is a boolean for unknown
\* modes and unknown states too.
C3_ModePolicy ==
    pc = "returned" =>
        LET elapsed == clock - last_intervention
        IN  /\ decision \in BOOLEAN
            /\ elapsed >= StatedCooldown(user_state)
                   => (decision <=> StatedPolicy(mode, user_state))
            /\ (mode = "coach" /\ user_state = "flow") => ~decision
            /\ mode = UnknownMode => ~decision

\* coach mode, flow, more than 45 minutes after the last intervention: no
\* intervention
C3_Witness ==
    /\ pc = "returned"
    /\ mode = "coach"
    /\ user_state = "flow"
    /\ clock - last_intervention > 45
    /\ ~decision

\* C4: last_intervention changes only in a cycle that decided to intervene,
\* to the clock value at the end of that cycle (not before the decision was
\* taken), with the interventions counter raised by exactly one; a cycle that
\* did not decide to intervene leaves both unchanged; a cycle that delivered
\* its intervention has set last_intervention to the current time; the mode is
\* never written.
C4_ResetOnlyOnIntervene ==
    [][ /\ last_intervention' # last_intervention
            => /\ CycleStep
               /\ decision'
               /\ outcome' = "intervened"
               /\ last_intervention' = clock'
               /\ last_intervention' >= clock
               /\ daily_stats'.interventions = daily_stats.interventions + 1
        /\ (CycleStep /\ ~decision')
            => /\ last_intervention' = last_intervention
               /\ daily_stats' = daily_stats
        /\ (CycleStep /\ outcome' = "intervened")
            => /\ decision'
               /\ last_intervention' = clock'
               /\ daily_stats'.interventions = daily_stats.interventions + 1
        /\ (CycleStep /\ outcome' = "skipped") => ~decision'
        /\ mode' = mode ]_vars

\* an intervention was delivered some time after start and reset the timestamp
C4_Witness ==
    /\ outcome = "intervened"
    /\ decision
    /\ last_intervention = clock
    /\ last_intervention > 0
    /\ daily_stats.interventions = 1

(***************************************************************************)
(* The detector's and the classifier's contract.                           *)
(***************************************************************************)
\* the summary _determine_behavior_pattern was applied to, and its result
Short == summaries["5_minutes"]

Patterned == stage \in {"summarized", "compared"}

\* minutes spent in the distraction episodes of a summary, in seconds
DistractionSeconds(summary) ==
    SumSeq([i \in DOMAIN summary.distractions |-> summary.distractions[i].duration])

\* the tests of the stated rule, for active_time > 0 seconds:
\* transitions / active_minutes < 0.2, distraction minutes / active_minutes > 0.5,
\* transitions / active_minutes > 0.5, active_minutes < 5
StatedFocused(summary) ==
    /\ Len(summary.focus_sessions) >= 1
    /\ 10 * 60 * summary.app_switches < 2 * summary.active_time
StatedDistracted(summary) == 10 * DistractionSeconds(summary) > 5 * summary.active_time
StatedSwitching(summary) == 10 * 60 * summary.app_switches > 5 * summary.active_time
StatedLight(summary) == summary.active_time < 5 * 60

\* C5: for a summary with active_minutes > 0 the pattern is exactly one of the
\* six values, the first that matches in the order away, focused_work,
\* heavily_distracted, context_switching, light_activity, normal_work.
C5_PatternFirstMatch ==
    (Patterned /\ Short.active_time > 0) =>
        LET p == Short.behavior_pattern
            away == Short.is_afk
            focused == ~away /\ StatedFocused(Short)
            distracted == ~away /\ ~focused /\ StatedDistracted(Short)
            switching == ~away /\ ~focused /\ ~distracted /\ StatedSwitching(Short)
            light == ~away /\ ~focused /\ ~distracted /\ ~switching /\ StatedLight(Short)
        IN  /\ p \in Patterns
            /\ (p = "away") <=> away
            /\ (p = "focused_work") <=> focused
            /\ (p = "heavily_distracted") <=> distracted
            /\ (p = "context_switching") <=> switching
            /\ (p = "light_activity") <=> light
            /\ (p = "normal_work") <=>
                   ~(away \/ focused \/ distracted \/ switching \/ light)

\* 10 switches among non-distracting apps inside 5 active minutes, no focus
\* session: context_switching
C5_Witness ==
    /\ Patterned
    /\ ~Short.is_afk
    /\ Short.active_time = 5 * 60
    /\ Short.app_switches = 10
    /\ Short.focus_sessions = <<>>
    /\ Short.distractions = <<>>
    /\ Short.behavior_pattern = "context_switching"

StatedState(pattern) ==
    CASE pattern = "focused_work" -> "flow"
      [] pattern \in {"heavily_distracted", "context_switching"} -> "needs_nudge"
      [] pattern = "away" -> "afk"
      [] OTHER -> "working"

\* C7: create_behavior_comparison always yields a current_state, one of the
\* four states, fixed by the 5_minutes summary's behavior_pattern alone:
\* focused_work -> flow, heavily_distracted and context_switching ->
\* needs_nudge, away -> afk, anything else (an empty or unknown pattern, a
\* missing 5_minutes summary) -> working.
C7_StateFromShortPattern ==
    stage = "compared" =>
        /\ comparison.current_state \in States
        /\ comparison.current_state =
               StatedState(IF "5_minutes" \in DOMAIN summaries
                           THEN summaries["5_minutes"].behavior_pattern
                           ELSE "")

\* no 5_minutes summary at all, while the other windows are there: working
C7_Witness ==
    /\ stage = "compared"
    /\ DOMAIN summaries = {"10_minutes", "30_minutes"}
    /\ comparison.current_state = "working"

\* the number of focus sessions / distraction episodes of a window, 0 when
\* the window is missing
FocusCount(tf) ==
    IF tf \in DOMAIN summaries THEN Len(summaries[tf].focus_sessions) ELSE 0
DistractionCount(tf) ==
    IF tf \in DOMAIN summaries THEN Len(summaries[tf].distractions) ELSE 0

\* C8: with recent = focus sessions of the short window and older =
\* max(0, focus sessions of the 30_minutes window - recent), focus_trend is
\* entering_focus if recent > 0 and older = 0, losing_focus if recent = 0 and
\* older > 0, maintaining_focus if recent > 0 otherwise, else no_focus.
C8_FocusTrendFloored ==
    stage = "compared" =>
        LET recent == FocusCount("5_minutes")
            diff == FocusCount("30_minutes") - recent
            older == IF diff < 0 THEN 0 ELSE diff
        IN  comparison.focus_trend =
                IF recent > 0 /\ older = 0 THEN "entering_focus"
                ELSE IF recent = 0 /\ older > 0 THEN "losing_focus"
                ELSE IF recent > 0 THEN "maintaining_focus"
                ELSE "no_focus"

\* C9: with s = distraction episodes of the 5_minutes window and m = those
\* of the 10_minutes window (0 for a missing window), distraction_trend is
\* increasing if s > 0.5 m, else decreasing if s < 0.2 m, else stable; with
\* m = 0 it is increasing iff s > 0 and stable otherwise.
C9_DistractionTrend ==
    stage = "compared" =>
        LET s == DistractionCount("5_minutes")
            m == DistractionCount("10_minutes")
            t == comparison.distraction_trend
        IN  /\ t = (IF 10 * s > 5 * m THEN "increasing"
                    ELSE IF 10 * s < 2 * m THEN "decreasing"
                    ELSE "stable")
            /\ m = 0 => t = (IF s > 0 THEN "increasing" ELSE "stable")

\* one episode in the short window against six in the 10_minutes window:
\* decreasing
C9_Witness ==
    /\ stage = "compared"
    /\ DistractionCount("5_minutes") = 1
    /\ DistractionCount("10_minutes") = 6
    /\ comparison.distraction_trend = "decreasing"

\* the permutations of a sequence
Reorderings(q) ==
    { [i \in DOMAIN q |-> q[f[i]]] :
        f \in {g \in [DOMAIN q -> DOMAIN q] : \A i, j \in DOMAIN q : g[i] = g[j] => i = j} }

\* event i of the list carries the greatest timestamp of the list
Greatest(afk_events, i) ==
    \A j \in DOMAIN afk_events : afk_events[j].timestamp <= afk_events[i].timestamp

\* event i carries the greatest timestamp, and no other event does
Latest(afk_events, i) ==
    \A j \in DOMAIN afk_events : j # i => afk_events[j].timestamp < afk_events[i].timestamp

\* the events that carry the greatest timestamp have one status
GreatestAgree(afk_events) ==
    \A i, j \in DOMAIN afk_events :
        (Greatest(afk_events, i) /\ Greatest(afk_events, j))
            => afk_events[i].status = afk_events[j].status

\* what is_afk leads to: the pattern away and, for the short window, the
\* state afk
AfkLeadsToAway ==
    /\ \A tf \in DOMAIN summaries :
           summaries[tf].is_afk => summaries[tf].behavior_pattern = "away"
    /\ (stage = "compared" /\ Short.is_afk) => comparison.current_state = "afk"

\* C10 as stated: is_afk of a window is true exactly when the AFK event with
\* the greatest timestamp has status afk, and false without AFK events, in
\* whatever order the events arrive; when is_afk is true the window's pattern
\* is away and, for the short window, current_state is afk.
C10_AnyArrivalOrder ==
    Patterned =>
        /\ \A tf \in DOMAIN summaries :
               LET afk_events == multi_timeframe_data[tf].afk
               IN  /\ afk_events = <<>> => ~summaries[tf].is_afk
                   /\ \A i \in DOMAIN afk_events :
                          Greatest(afk_events, i) =>
                              (summaries[tf].is_afk <=> (afk_events[i].status = "afk"))
                   /\ \A q \in Reorderings(afk_events) :
                          is_currently_afk(q) <=> summaries[tf].is_afk
        /\ AfkLeadsToAway

\* C10, amended: is_afk of a window is true exactly when the AFK event with
\* the greatest timestamp (the first of them in arrival order when several
\* events carry it) has status afk, and false without AFK events; the order
\* of arrival does not matter when the events carrying the greatest timestamp
\* agree on their status; when is_afk is true the window's pattern is away
\* and, for the short window, current_state is afk, whatever else the window
\* holds.
C10_LatestAfkEventDecides ==
    Patterned =>
        /\ \A tf \in DOMAIN summaries :
               LET afk_events == multi_timeframe_data[tf].afk
               IN  /\ afk_events = <<>> => ~summaries[tf].is_afk
                   /\ \A i \in DOMAIN afk_events :
                          (Greatest(afk_events, i)
                              /\ \A j \in 1..(i - 1) : ~Greatest(afk_events, j))
                              => (summaries[tf].is_afk <=> (afk_events[i].status = "afk"))
                   /\ GreatestAgree(afk_events) =>
                          \A q \in Reorderings(afk_events) :
                              is_currently_afk(q) <=> summaries[tf].is_afk
        /\ AfkLeadsToAway

\* the afk event is the latest by timestamp but arrived first, and the short
\* window also holds a focus session and a web distraction
C10_Witness ==
    /\ stage = "compared"
    /\ Len(multi_timeframe_data["5_minutes"].afk) = 3
    /\ Latest(multi_timeframe_data["5_minutes"].afk, 1)
    /\ multi_timeframe_data["5_minutes"].afk[1].status = "afk"
    /\ multi_timeframe_data["5_minutes"].afk[3].status = "not-afk"
    /\ Short.focus_sessions # <<>>
    /\ Short.distractions # <<>>
    /\ Short.is_afk
    /\ comparison.current_state = "afk"

(***************************************************************************)
(* The state analysis of a cycle and the rule-based classifier.            *)
(***************************************************************************)
\* analyze_user_state_with_llm has returned
Analysed == stage \in {"analysed", "summarized"}

\* the LLM's reply was taken as the analysis
OverrideAccepted == parse_llm_state_analysis(llm_response)

\* every event list of every timeframe is empty
NoEvents ==
    \A tf \in DOMAIN multi_timeframe_data :
        /\ multi_timeframe_data[tf].window = <<>>
        /\ multi_timeframe_data[tf].web = <<>>
        /\ multi_timeframe_data[tf].afk = <<>>

\* the enums of the Comparison
FocusTrends == {"entering_focus", "maintaining_focus", "losing_focus", "no_focus"}
DistractionTrends == {"increasing", "decreasing", "stable"}

\* C11: when every timeframe's window, web and AFK lists are empty and no
\* valid LLM override is supplied, the current_state the cycle passes to
\* should_intervene is not afk.
C11_NoEventsIsNotAfk ==
    (Analysed /\ NoEvents /\ ~OverrideAccepted) => user_state # "afk"

\* C12: when the LLM override is absent, unreachable or fails validation, the
\* current_state, focus_trend and distraction_trend the cycle uses are those
\* create_behavior_comparison gives on the summaries of the same events.
C12_FallbackIsRuleBased ==
    (stage = "summarized" /\ ~OverrideAccepted) =>
        \A c \in {create_behavior_comparison(summaries)} :
            /\ llm_analysis.current_state = c.current_state
            /\ llm_analysis.focus_trend = c.focus_trend
            /\ llm_analysis.distraction_trend = c.distraction_trend

\* C13: in every cycle the state and the trends used downstream lie in the
\* Comparison enums, from an accepted override or from the fallback, and an
\* override with a value outside the enums is rejected.
C13_AnalysisInEnums ==
    Analysed =>
        /\ llm_analysis.current_state \in AllStates
        /\ llm_analysis.focus_trend \in FocusTrends
        /\ llm_analysis.distraction_trend \in DistractionTrends
        /\ (/\ llm_response.kind = "json"
            /\ \/ llm_response.current_state \notin AllStates
               \/ llm_response.focus_trend \notin FocusTrends
               \/ llm_response.distraction_trend \notin DistractionTrends)
               => ~OverrideAccepted

(***************************************************************************)
(* The aggregator's contract on the events of a window.                    *)
(***************************************************************************)
WindowEvents == multi_timeframe_data["5_minutes"].window
WebEvents == multi_timeframe_data["5_minutes"].web

\* the events in ascending order of their (pairwise distinct) timestamps
InTimeOrder(events) ==
    [i \in DOMAIN events |->
        events[CHOOSE j \in DOMAIN events :
                   Cardinality({k \in DOMAIN events :
                                   events[k].timestamp < events[j].timestamp}) = i - 1]]

\* an event of at least 3 seconds
AboveFloor(event) == event.duration >= 3

\* the window events that count, in time order
Kept == SelectSeq(InTimeOrder(WindowEvents), AboveFloor)

\* positions a..b of kept are a maximal run on one app
MaximalRun(kept, a, b) ==
    /\ a <= b
    /\ \A i \in a..b : Lower(kept[i].app) = Lower(kept[a].app)
    /\ a > 1 => Lower(kept[a - 1].app) # Lower(kept[a].app)
    /\ b < Len(kept) => Lower(kept[b + 1].app) # Lower(kept[a].app)

RunSeconds(kept, a, b) == SumSeq([i \in 1..(b - a + 1) |-> kept[a + i - 1].duration])

\* the session is the one of the run at positions a..b
SessionOfRun(session, kept, a, b) ==
    /\ MaximalRun(kept, a, b)
    /\ session.app = Lower(kept[a].app)
    /\ session.start_time = kept[a].timestamp
    /\ session.duration = RunSeconds(kept, a, b)

\* C14: every focus session of a window summary lasts at least 15 minutes and
\* is the session of exactly one maximal run of consecutive (time-ordered,
\* above-floor) events on one app; the sessions are in ascending start time,
\* so no event is in two of them; a run below 15 minutes has no session, and
\* a run of 15 minutes or more on a named app has one, the final run included.
C14_FocusSessionsAreMaximalRuns ==
    Patterned =>
        \A kept \in {Kept} :
            /\ \A k \in DOMAIN Short.focus_sessions :
                   /\ Short.focus_sessions[k].duration >= 15 * 60
                   /\ Cardinality({r \in (DOMAIN kept) \X (DOMAIN kept) :
                          SessionOfRun(Short.focus_sessions[k], kept, r[1], r[2])}) = 1
            /\ \A k, l \in DOMAIN Short.focus_sessions :
                   k < l => Short.focus_sessions[k].start_time
                                < Short.focus_sessions[l].start_time
            /\ \A r \in (DOMAIN kept) \X (DOMAIN kept) :
                   MaximalRun(kept, r[1], r[2]) =>
                       LET emitted == {k \in DOMAIN Short.focus_sessions :
                               SessionOfRun(Short.focus_sessions[k], kept, r[1], r[2])}
                           seconds == RunSeconds(kept, r[1], r[2])
                       IN  /\ seconds < 15 * 60 => emitted = {}
                           /\ (seconds >= 15 * 60 /\ kept[r[1]].app # <<>>)
                                  => Cardinality(emitted) = 1

\* two runs of 15 minutes on one app, split by 10 minutes on another that
\* yield no session, the events arriving latest first
C14_Witness ==
    /\ Patterned
    /\ Len(WindowEvents) = 3
    /\ WindowEvents[1].timestamp = 3
    /\ Len(Short.focus_sessions) = 2
    /\ Short.focus_sessions[2].start_time = 3
    /\ \E a \in DOMAIN Kept : MaximalRun(Kept, a, a) /\ RunSeconds(Kept, a, a) = 600

\* the seconds of the window events that count (those of at least 3 seconds)
KeptSeconds == SumSeq([i \in DOMAIN Kept |-> Kept[i].duration])

\* every window event is on one named app, whatever the letter case
OneEntity ==
    /\ WindowEvents # <<>>
    /\ WindowEvents[1].app # <<>>
    /\ \A i \in DOMAIN WindowEvents :
           Lower(WindowEvents[i].app) = Lower(WindowEvents[1].app)

AppSeconds(name) ==
    SumSeq([i \in DOMAIN Kept |->
               IF Lower(Kept[i].app) = name THEN Kept[i].duration ELSE 0])

\* the seconds the web events spend on the domain
DomainSeconds(domain) ==
    SumSeq([i \in DOMAIN WebEvents |->
               IF WebEvents[i].url # <<>> /\ extract_domain(WebEvents[i].url) = domain
               THEN WebEvents[i].duration ELSE 0])

\* the episodes of the summary for an entity
Episodes(type, name) ==
    {k \in DOMAIN Short.distractions :
        Short.distractions[k].type = type /\ Short.distractions[k].name = name}

\* C16: for app and for web events alike, the distractions of a window hold
\* at most one episode per entity, and one exactly when the entity matches a
\* distraction keyword and its total time in the window exceeds the minimum
\* of its kind (2 minutes for apps, 1 minute for web), however that time is
\* split over events.
C16_OneEpisodePerEntity ==
    Patterned =>
        /\ \A i \in DOMAIN Kept :
               Kept[i].app # <<>> =>
                   \A name \in {Lower(Kept[i].app)} :
                       Cardinality(Episodes("app", name)) =
                           IF is_distraction_app(name) /\ AppSeconds(name) > 2 * 60
                           THEN 1 ELSE 0
        /\ \A i \in DOMAIN WebEvents :
               WebEvents[i].url # <<>> =>
                   \A domain \in {extract_domain(WebEvents[i].url)} :
                       Cardinality(Episodes("web", domain)) =
                           IF is_distraction_domain(domain) /\ DomainSeconds(domain) > 60
                           THEN 1 ELSE 0
        /\ \A k \in DOMAIN Short.distractions :
               \/ /\ Short.distractions[k].type = "app"
                  /\ \E i \in DOMAIN Kept : Lower(Kept[i].app) = Short.distractions[k].name
               \/ /\ Short.distractions[k].type = "web"
                  /\ \E i \in DOMAIN WebEvents :
                         extract_domain(WebEvents[i].url) = Short.distractions[k].name

\* the categories of the form distraction_<subcategory>
DistractionCategories ==
    {"distraction_" \o distraction_apps[i][1] : i \in DOMAIN distraction_apps}
        \cup {"distraction_" \o distraction_domains[i][1] : i \in DOMAIN distraction_domains}

\* the name matches a keyword of the productivity table
MatchesProductivity(name) ==
    \E i \in DOMAIN productivity_apps : AnyKeyword(productivity_apps[i][2], Lower(name))

\* C17: every distraction episode of every window summary has a category
\* distraction_<subcategory>; an app whose name matches a productivity keyword
\* and a distraction keyword counts as productive and is not among the
\* distractions.
C17_EpisodesAreDistractions ==
    Patterned =>
        \A tf \in DOMAIN summaries :
            \A k \in DOMAIN summaries[tf].distractions :
                /\ summaries[tf].distractions[k].category \in DistractionCategories
                /\ summaries[tf].distractions[k].type = "app"
                       => ~MatchesProductivity(summaries[tf].distractions[k].name)

\* a dict as a mapping: its items, whatever their insertion order
Items(d) == {d[i] : i \in DOMAIN d}

\* two window summaries agree on what the window holds
SameWindowSummary(a, b) ==
    /\ Items(a.app_summary) = Items(b.app_summary)
    /\ Items(a.app_titles) = Items(b.app_titles)
    /\ a.active_time = b.active_time
    /\ a.app_switches = b.app_switches
    /\ a.focus_sessions = b.focus_sessions
    /\ a.distractions = b.distractions

\* two web summaries agree on what the window holds
SameWebSummary(a, b) ==
    /\ Items(a.domain_summary) = Items(b.domain_summary)
    /\ Items(a.domain_titles) = Items(b.domain_titles)
    /\ a.total_web_time = b.total_web_time
    /\ a.distractions = b.distractions

C19_ShortWindowEventsDiscarded ==
    Patterned =>
        /\ WindowEvents # <<>> =>
               \A kept \in {Kept} :
                   \A w \in {IF kept = <<>> THEN NoWindowSummary
                              ELSE summarize_window_events(kept)} :
                       /\ Short.active_time = w.active_time
                       /\ Short.app_summary = w.app_summary
                       /\ Short.app_titles = w.app_titles
                       /\ Short.focus_sessions = w.focus_sessions
                       /\ Short.app_switches = w.app_switches
                       /\ Short.distractions = w.distractions \o Short.web_summary.distractions
        /\ WebEvents # <<>> =>
               /\ Short.web_summary.total_web_time =
                      SumSeq([i \in DOMAIN WebEvents |-> WebEvents[i].duration])
               /\ \A i \in DOMAIN WebEvents :
                      \E k \in DOMAIN Short.web_summary.domain_summary :
                          Short.web_summary.domain_summary[k][1] =
                              extract_domain(WebEvents[i].url)

C19_Witness ==
    /\ Patterned
    /\ Len(WindowEvents) = 3
    /\ \A i \in 1..3 : WindowEvents[i].timestamp = i
    /\ WindowEvents[1].app = AppCode /\ WindowEvents[1].duration = 600
    /\ WindowEvents[2].app = AppDiscord /\ WindowEvents[2].duration = 1
    /\ WindowEvents[3].app = AppCode /\ WindowEvents[3].duration = 600
    /\ Len(Short.focus_sessions) = 1
    /\ Short.focus_sessions[1].duration = 1200
    /\ Short.app_switches = 0

\* C20: entity identity ignores letter case, for app names and for web
\* domains: no two keys of the durations and no two distraction episodes
\* carry names that differ only in letter case, and consecutive app events
\* whose names differ only in letter case count no switch.
SameButForCase(a, b) == a # b /\ Lower(a) = Lower(b)

SwitchesIgnoringCase(kept) ==
    Cardinality({i \in 1..(Len(kept) - 1) : Lower(kept[i].app) # Lower(kept[i + 1].app)})

C20_EntityIdentityIgnoresCase ==
    Patterned =>
        /\ \A i, j \in DOMAIN Short.app_summary :
               ~SameButForCase(Short.app_summary[i][1], Short.app_summary[j][1])
        /\ \A i, j \in DOMAIN Short.web_summary.domain_summary :
               ~SameButForCase(Short.web_summary.domain_summary[i][1],
                               Short.web_summary.domain_summary[j][1])
        /\ \A i, j \in DOMAIN Short.distractions :
               ~SameButForCase(Short.distractions[i].name, Short.distractions[j].name)
        /\ \A kept \in {Kept} : Short.app_switches = SwitchesIgnoringCase(kept)

\* C21: app_switches is the number of adjacent pairs, in ascending timestamp
\* order among the window events of at least 3 seconds, whose lowercased app
\* names differ: the first event counts no transition, and events that all
\* carry one name count none.
Transitions(kept) ==
    {i \in DOMAIN kept : i > 1 /\ Lower(kept[i - 1].app) # Lower(kept[i].app)}

C21_SwitchesAreAdjacentChanges ==
    (Patterned /\ WindowEvents # <<>>) =>
        \A kept \in {Kept} :
            /\ Short.app_switches = Cardinality(Transitions(kept))
            /\ 1 \notin Transitions(kept)
            /\ (\A i, j \in DOMAIN kept : Lower(kept[i].app) = Lower(kept[j].app))
                   => Short.app_switches = 0

C21_Witness ==
    /\ Patterned
    /\ Len(WindowEvents) = 3
    /\ \A i \in 1..3 : WindowEvents[i].duration >= 3
    /\ WindowEvents[1].timestamp = 3 /\ WindowEvents[1].app = AppDiscord
    /\ WindowEvents[2].timestamp = 2 /\ WindowEvents[2].app = AppCodeLower
    /\ WindowEvents[3].timestamp = 1 /\ WindowEvents[3].app = AppCode
    /\ Short.app_switches = 1

\* the length of the "5_minutes" timeframe of get_multi_timeframe_data
WindowMinutes == 5

\* C22: the per-entity durations of a timeframe add up to at most the length
\* of the timeframe plus a small slack (one minute here): time of events that
\* overlap or reach beyond the edges of the timeframe is not counted twice
\* nor beyond the timeframe.
C22_ActiveTimeWithinWindow ==
    Patterned => Short.active_time <= (WindowMinutes + 1) * SecondsPerMinute

\* C23: a timeframe whose window, web and afk lists are all empty is
\* summarised, without an error, as is_afk false, active time 0, no switch, no
\* focus session, no distraction and pattern light_activity; the comparison
\* of such summaries, and of no summaries at all, is current_state working,
\* focus_trend no_focus and distraction_trend stable.
AllEmpty == \A tf \in DOMAIN multi_timeframe_data : multi_timeframe_data[tf] = EmptyBatch

DefaultComparison ==
    [focus_trend |-> "no_focus", distraction_trend |-> "stable", current_state |-> "working"]

C23_EmptyWindowsGiveDefaults ==
    /\ Patterned =>
           /\ DOMAIN summaries = DOMAIN multi_timeframe_data
           /\ \A tf \in DOMAIN multi_timeframe_data :
                  multi_timeframe_data[tf] = EmptyBatch =>
                      /\ summaries[tf].is_afk = FALSE
                      /\ summaries[tf].active_time = 0
                      /\ summaries[tf].app_switches = 0
                      /\ summaries[tf].focus_sessions = <<>>
                      /\ summaries[tf].distractions = <<>>
                      /\ summaries[tf].behavior_pattern = "light_activity"
    /\ (stage = "compared" /\ AllEmpty) => comparison = DefaultComparison
    /\ create_behavior_comparison([tf \in {} |-> <<>>]) = DefaultComparison

C23_Witness ==
    /\ stage = "compared"
    /\ DOMAIN multi_timeframe_data = Timeframes
    /\ AllEmpty
    /\ summaries["5_minutes"].behavior_pattern = "light_activity"
    /\ comparison = DefaultComparison

\* C24: an event without an app name (window) or without a url (web) is
\* skipped on its own: the summary is the one of the batch without that
\* event, in durations, switches, focus sessions and distractions.
HasApp(event) == event.app # <<>>
HasUrl(event) == event.url # <<>>

C24_InvalidEventsSkipped ==
    Patterned =>
        /\ WindowEvents # <<>> =>
               \A named \in {SelectSeq(InTimeOrder(WindowEvents), HasApp)} :
                   \A w \in {IF named = <<>> THEN NoWindowSummary
                              ELSE summarize_window_events(named)} :
                       /\ Short.active_time = w.active_time
                       /\ Short.app_summary = w.app_summary
                       /\ Short.app_switches = w.app_switches
                       /\ Short.focus_sessions = w.focus_sessions
                       /\ Short.distractions = w.distractions \o Short.web_summary.distractions
        /\ WebEvents # <<>> =>
               \A located \in {SelectSeq(WebEvents, HasUrl)} :
                   Short.web_summary = IF located = <<>> THEN summarize_web_events(<<>>)
                                       ELSE summarize_web_events(located)

\* C25: get_events returns a list, the empty one whenever the request fails
\* (a connection error, a timeout or a status 500 on every attempt, another
\* error status, any other request error), after at most `retries` attempts.
Failed(replies) ==
    \/ \A i \in DOMAIN replies : replies[i].kind \in {"timeout", "status_500"}
    \/ \E i \in DOMAIN replies :
          /\ replies[i].kind \in {"connection_error", "status_error", "request_error"}
          /\ \A j \in 1..(i - 1) : replies[j].kind \in {"timeout", "status_500"}

C25_FailedRequestGivesEmptyList ==
    aw_events.done =>
        /\ ~aw_events.none
        /\ aw_events.events \in Bodies
        /\ aw_events.attempts \in 1..retries
        /\ Failed(aw_replies) => aw_events.events = <<>>
        /\ ~Failed(aw_replies) =>
               \E i \in DOMAIN aw_replies :
                   /\ aw_replies[i].kind = "ok"
                   /\ aw_events.attempts = i
                   /\ aw_events.events = aw_replies[i].body

C25_Witness ==
    /\ aw_events.done
    /\ ~aw_events.none
    /\ aw_events.events = <<>>
    /\ aw_events.attempts = retries
    /\ aw_replies[1].kind = "timeout"
    /\ aw_replies[2].kind = "status_500"
    /\ aw_replies[3].kind = "status_500"

\* C26: an exception raised inside a cycle is caught in check_activity: the
\* failed cycle leaves last_intervention and the counter as they were, the
\* loop goes on to its sleep and the next cycle starts check_interval later;
\* a cycle starts only from the head of the loop and is over before the
\* sleep, so two cycles never overlap.
C26_FailedCycleIsContained ==
    [][ /\ (CycleStep /\ outcome' = "error")
            => /\ last_intervention' = last_intervention
               /\ daily_stats' = daily_stats
        /\ (outcome' # outcome \/ user_state' # user_state \/ decision' # decision)
            => CycleStep
        /\ pc = "sleep" => (pc' = "loop" /\ clock' = clock + check_interval)
        /\ pc \in {"loop", "sleep"} => pc' \in {"loop", "sleep"} ]_vars

\* after an intervention, a cycle failed, and the next cycle is about to start
C26_Witness ==
    /\ outcome = "error"
    /\ pc = "loop"
    /\ last_intervention > 0
    /\ clock >= last_intervention + check_interval

\* C27: when the ActivityWatch API is unreachable, the connection test reports
\* not connected and run() returns without entering the monitoring loop, so
\* check_activity is never called.
C27_UnreachableNeverMonitors ==
    aw_replies = Unreachable =>
        /\ ~test_connection(~make_request(aw_replies, 0).none)
        /\ pc \in {"start", "stopped"}
        /\ outcome = "none"

\* C28: an intervention delivered in a cycle whose state is s comes at least
\* cooldown[s] minutes after the previous one, whatever the state at the
\* previous one was, and the first one at least cooldown[s] minutes after
\* construction, since last_intervention starts at the time of construction.
\* (Before the step last_intervention holds the time of the previous
\* intervention, or 0 when there was none.)
C28_InterventionsKeepCooldown ==
    [][ (CycleStep /\ outcome' = "intervened")
            => /\ clock - last_intervention >= StatedCooldown(user_state')
               /\ last_intervention' - last_intervention >= StatedCooldown(user_state')
               /\ daily_stats.interventions = 0 /\ last_intervention = 0
                      => last_intervention' >= StatedCooldown(user_state') ]_vars

\* an intervention in working, then one in needs_nudge five minutes later
C28_Witness ==
    /\ outcome = "intervened"
    /\ user_state = "needs_nudge"
    /\ daily_stats.interventions = 2
    /\ last_intervention = 20
    /\ clock = 20

\* C29: in study_buddy mode, when cycles keep running and complete without
\* error, interventions are delivered again and again whatever states are
\* observed, and the time since the last one never passes the largest
\* cooldown; in coach mode a run whose state is flow in every cycle never
\* delivers one.
C29_StudyBuddyKeepsIntervening ==
    /\ (mode = "study_buddy") => []<>(outcome = "intervened")
    /\ [](mode = "study_buddy" => clock - last_intervention <= LargestCooldown)
    /\ (mode = "coach" /\ [](user_state \in {"none", "flow"}))
           => [](outcome # "intervened")

\* study_buddy delivered in flow, and not for the first time
C29_Witness ==
    /\ mode = "study_buddy"
    /\ outcome = "intervened"
    /\ user_state = "flow"
    /\ daily_stats.interventions = MaxInterventions

\* C30: the cooldown of afk is 0, so in coach and study_buddy modes a cycle
\* whose state is afk decides to intervene however recent the previous
\* intervention is, and, unless it fails while the response is produced,
\* delivers it and sets last_intervention to the current time; consecutive
\* afk cycles intervene at every check interval.
C30_AfkHasNoCooldown ==
    [][ (CycleStep /\ mode \in {"coach", "study_buddy"} /\ user_state' = "afk")
            => /\ decision'
               /\ outcome' \in {"intervened", "error"}
               /\ outcome' = "intervened"
                      => /\ last_intervention' = clock'
                         /\ daily_stats'.interventions = daily_stats.interventions + 1 ]_vars

\* two afk cycles one check interval apart, both delivered
C30_Witness ==
    /\ mode = "coach"
    /\ user_state = "afk"
    /\ outcome = "intervened"
    /\ daily_stats.interventions = 2
    /\ last_intervention = check_interval
    /\ clock = check_interval

====
